---- MODULE Spec2Model ----
(***************************************************************************)
(* Binary codec, CLType / CLValue and URef of the CasperLabs execution     *)
(* engine, in its two generations:                                         *)
(*   - contract-ffi  (bytesrepr.rs: ToBytes / FromBytes traits)            *)
(*   - types         (encoding/: serde Serializer / Deserializer)          *)
(*                                                                         *)
(* Bytes are integers 0..255, a buffer is a sequence of bytes.  Every      *)
(* program value and every type descriptor is a record with the same four  *)
(* fields  k (kind), n (number), s (bytes), a (children).                  *)
(***************************************************************************)
EXTENDS Integers, Sequences, FiniteSets, TLC

VARIABLES
  mem,    \* the number of elements the allocator can still reserve
  crate,  \* "ffi" (contract-ffi) or "types"
  ty,     \* the Rust type T the host works with
  val,    \* a value of T
  buf,    \* the byte buffer in flight and how it was made
  res,    \* the result of the last decode of buf
  clv,    \* the CLValue held and how it was produced
  out,    \* the result of the last into_t / contained_urefs
  decoder \* the position and the slots of a [T; N] decode under way

vars == <<mem, crate, ty, val, buf, res, clv, out, decoder>>

(***************************************************************************)
(* Values                                                                  *)
(***************************************************************************)
Mk(k, n, s, a) == [k |-> k, n |-> n, s |-> s, a |-> a]

Unit == Mk("unit", 0, <<>>, <<>>)

IntV(n) == Mk("int", n, <<>>, <<>>)

BoolV(b) == Mk("bool", IF b THEN 1 ELSE 0, <<>>, <<>>)

\* an integer outside the range the checker can hold, kept by its bytes
Wide(bs) == Mk("wide", 0, bs, <<>>)

StrV(bs) == Mk("str", 0, bs, <<>>)

CharV(cp) == Mk("char", cp, <<>>, <<>>)

SeqV(vs) == Mk("seq", 0, <<>>, vs)

None == Mk("none", 0, <<>>, <<>>)

Some(v) == Mk("some", 0, <<>>, <<v>>)

OkV(v) == Mk("ok", 0, <<>>, <<v>>)

ErrV(v) == Mk("err", 0, <<>>, <<v>>)

\* a BTreeMap: children are k1, v1, k2, v2, ... in ascending key order
MapV(kvs) == Mk("map", 0, <<>>, kvs)

\* contract-ffi URef(addr, Option<AccessRights>)
URefV(addr, rights) == Mk("uref", 0, addr, <<rights>>)

\* URef::remove_access_rights (contract-ffi)
remove_access_rights(u) == URefV(u.s, None)

\* types URef(addr, AccessRights)
TURefV(addr, bits) == Mk("turef", bits, addr, <<>>)

\* Key (types): n is the variant index, children are the payload
KeyV(variant, payload) == Mk("key", variant, <<>>, payload)

PublicKeyV(bs) == Mk("public_key", 0, bs, <<>>)

\* a borrowed byte slice / byte array field
BytesV(bs) == Mk("bytes", 0, bs, <<>>)

\* Pointer::LeafPointer(hash) has tag 0, Pointer::NodePointer(hash) tag 1
PointerV(tag, hash) == Mk("pointer", tag, hash, <<>>)

\* Trie::Leaf { key, value } has tag 0
LeafV(key, value) == Mk("trie", 0, <<>>, <<key, value>>)

\* Trie::Node { pointer_block } has tag 1
NodeV(pointer_block) == Mk("trie", 1, <<>>, <<pointer_block>>)

\* Trie::Extension { affix, pointer } has tag 2
ExtensionV(affix, pointer) == Mk("trie", 2, <<>>, <<affix, pointer>>)

\* CLValue { cl_type, bytes, uref_offsets }
CLValueV(cl_type, bytes, uref_offsets) == Mk("clvalue", 0, bytes, <<cl_type, SeqV(uref_offsets)>>)

(***************************************************************************)
(* Rust types (the Self of a ToBytes / FromBytes / Serialize impl)         *)
(***************************************************************************)
T0(k) == Mk(k, 0, <<>>, <<>>)

TBool == T0("bool")

TU8 == T0("u8")

TU16 == T0("u16")

TU32 == T0("u32")

TU64 == T0("u64")

TI8 == T0("i8")

TI16 == T0("i16")

TI32 == T0("i32")

TI64 == T0("i64")

TUnit == T0("()")

TString == T0("String")

TChar == T0("char")

TAccessRights == T0("AccessRights")

TURef == T0("URef")

TKey == T0("Key")

TPublicKey == T0("PublicKey")

TCLType == T0("CLType")

TCLValue == T0("CLValue")

TVec(t) == Mk("Vec", 0, <<>>, <<t>>)

TArray(t, n) == Mk("Array", n, <<>>, <<t>>)

TOption(t) == Mk("Option", 0, <<>>, <<t>>)

TResult(t, e) == Mk("Result", 0, <<>>, <<t, e>>)

TMap(k, v) == Mk("BTreeMap", 0, <<>>, <<k, v>>)

TTuple1(t1) == Mk("Tuple1", 0, <<>>, <<t1>>)

TTuple2(t1, t2) == Mk("Tuple2", 0, <<>>, <<t1, t2>>)

TTuple3(t1, t2, t3) == Mk("Tuple3", 0, <<>>, <<t1, t2, t3>>)

TBlake2bHash == T0("Blake2bHash")

TPointer == T0("Pointer")

RADIX == 256

\* PointerBlock([Option<Pointer>; RADIX])
TPointerBlock == TArray(TOption(TPointer), RADIX)

TTrie(k, v) == Mk("Trie", 0, <<>>, <<k, v>>)

IsIntType(t) == t.k \in {"u8", "u16", "u32", "u64", "i8", "i16", "i32", "i64"}

IsSigned(t) == t.k \in {"i8", "i16", "i32", "i64"}

\* core::mem::size_of of the integral types; a Vec or a String is three
\* words of the 64-bit host
size_of(t) ==
  CASE t.k \in {"u8", "i8"} -> 1
    [] t.k \in {"u16", "i16"} -> 2
    [] t.k \in {"u32", "i32"} -> 4
    [] t.k \in {"u64", "i64"} -> 8
    [] t.k \in {"Vec", "String"} -> 24

(***************************************************************************)
(* Results                                                                 *)
(***************************************************************************)
Ok(v, rem) == [ok |-> TRUE, v |-> v, rem |-> rem, e |-> ""]

Err(e) == [ok |-> FALSE, v |-> Unit, rem |-> <<>>, e |-> e]

\* the call does not return: the thread unwinds
Panic == Err("panic")

NoResult == Err("none")

(***************************************************************************)
(* Byte helpers                                                            *)
(***************************************************************************)
Take(bs, n) == SubSeq(bs, 1, n)

Drop(bs, n) == SubSeq(bs, n + 1, Len(bs))

\* the concatenation of a sequence of buffers, by halves
RECURSIVE Concat(_)
Concat(ss) ==
  IF ss = <<>> THEN <<>>
  ELSE IF Len(ss) = 1 THEN ss[1]
  ELSE Concat(Take(ss, Len(ss) \div 2)) \o Concat(Drop(ss, Len(ss) \div 2))

\* the sum of a sequence of numbers, by halves
RECURSIVE SumSeq(_)
SumSeq(ns) ==
  IF ns = <<>> THEN 0
  ELSE IF Len(ns) = 1 THEN ns[1]
  ELSE SumSeq(Take(ns, Len(ns) \div 2)) + SumSeq(Drop(ns, Len(ns) \div 2))

Pow256(i) == CASE i = 0 -> 1 [] i = 1 -> 256 [] i = 2 -> 65536 [] i = 3 -> 16777216

\* {integer}::to_le_bytes for a w-byte integer (two's complement)
to_le_bytes(n, w) ==
  [i \in 1..w |-> IF i <= 4 THEN (n \div Pow256(i - 1)) % 256
                  ELSE IF n < 0 THEN 255 ELSE 0]

\* {integer}::from_le_bytes; a value the checker cannot hold stays as bytes
from_le_bytes(bs, signed) ==
  LET w == Len(bs)
      top == bs[w]
      ext == IF signed /\ top >= 128 THEN 255 ELSE 0
      low == SumSeq([i \in 1..w |-> IF i <= 3 THEN bs[i] * Pow256(i - 1) ELSE 0])
      fits == /\ \A i \in 5..w : bs[i] = ext
              /\ w >= 4 => (IF ext = 255 THEN bs[4] >= 128 ELSE bs[4] < 128)
  IN  IF ~fits THEN Wide(bs)
      ELSE IF w >= 4 THEN IntV(low + (bs[4] - (IF ext = 255 THEN 256 ELSE 0)) * Pow256(3))
      ELSE IF ext = 255 THEN IntV(low - Pow256(w))
      ELSE IntV(low)

(***************************************************************************)
(* CLType                                                                  *)
(***************************************************************************)
CL0(k) == Mk(k, 0, <<>>, <<>>)

CLBool == CL0("CLType::Bool")

CLI32 == CL0("CLType::I32")

CLI64 == CL0("CLType::I64")

CLU8 == CL0("CLType::U8")

CLU32 == CL0("CLType::U32")

CLU64 == CL0("CLType::U64")

CLU128 == CL0("CLType::U128")

CLU256 == CL0("CLType::U256")

CLU512 == CL0("CLType::U512")

CLUnit == CL0("CLType::Unit")

CLString == CL0("CLType::String")

CLKey == CL0("CLType::Key")

CLURef == CL0("CLType::URef")

CLAny == CL0("CLType::Any")

CLOption(t) == Mk("CLType::Option", 0, <<>>, <<t>>)

CLList(t) == Mk("CLType::List", 0, <<>>, <<t>>)

CLFixedList(t, len) == Mk("CLType::FixedList", len, <<>>, <<t>>)

CLResult(ok, err) == Mk("CLType::Result", 0, <<>>, <<ok, err>>)

CLMap(key, value) == Mk("CLType::Map", 0, <<>>, <<key, value>>)

CLTuple1(t1) == Mk("CLType::Tuple1", 0, <<>>, <<t1>>)

CLTuple2(t1, t2) == Mk("CLType::Tuple2", 0, <<>>, <<t1, t2>>)

CLTuple3(t1, t2, t3) == Mk("CLType::Tuple3", 0, <<>>, <<t1, t2, t3>>)

CL_TYPE_TAG_BOOL == 0

CL_TYPE_TAG_I32 == 1

CL_TYPE_TAG_I64 == 2

CL_TYPE_TAG_U8 == 3

CL_TYPE_TAG_U32 == 4

CL_TYPE_TAG_U64 == 5

CL_TYPE_TAG_U128 == 6

CL_TYPE_TAG_U256 == 7

CL_TYPE_TAG_U512 == 8

CL_TYPE_TAG_UNIT == 9

CL_TYPE_TAG_STRING == 10

CL_TYPE_TAG_KEY == 11

CL_TYPE_TAG_UREF == 12

CL_TYPE_TAG_OPTION == 13

CL_TYPE_TAG_LIST == 14

CL_TYPE_TAG_FIXED_LIST == 15

CL_TYPE_TAG_RESULT == 16

CL_TYPE_TAG_MAP == 17

CL_TYPE_TAG_TUPLE1 == 18

CL_TYPE_TAG_TUPLE2 == 19

CL_TYPE_TAG_TUPLE3 == 20

CL_TYPE_TAG_ANY == 21

\* the tag append_bytes pushes for each variant
CLTypeTag(c) ==
  CASE c.k = "CLType::Bool" -> CL_TYPE_TAG_BOOL
    [] c.k = "CLType::I32" -> CL_TYPE_TAG_I32
    [] c.k = "CLType::I64" -> CL_TYPE_TAG_I64
    [] c.k = "CLType::U8" -> CL_TYPE_TAG_U8
    [] c.k = "CLType::U32" -> CL_TYPE_TAG_U32
    [] c.k = "CLType::U64" -> CL_TYPE_TAG_U64
    [] c.k = "CLType::U128" -> CL_TYPE_TAG_U128
    [] c.k = "CLType::U256" -> CL_TYPE_TAG_U256
    [] c.k = "CLType::U512" -> CL_TYPE_TAG_U512
    [] c.k = "CLType::Unit" -> CL_TYPE_TAG_UNIT
    [] c.k = "CLType::String" -> CL_TYPE_TAG_STRING
    [] c.k = "CLType::Key" -> CL_TYPE_TAG_KEY
    [] c.k = "CLType::URef" -> CL_TYPE_TAG_UREF
    [] c.k = "CLType::Option" -> CL_TYPE_TAG_OPTION
    [] c.k = "CLType::List" -> CL_TYPE_TAG_LIST
    [] c.k = "CLType::FixedList" -> CL_TYPE_TAG_FIXED_LIST
    [] c.k = "CLType::Result" -> CL_TYPE_TAG_RESULT
    [] c.k = "CLType::Map" -> CL_TYPE_TAG_MAP
    [] c.k = "CLType::Tuple1" -> CL_TYPE_TAG_TUPLE1
    [] c.k = "CLType::Tuple2" -> CL_TYPE_TAG_TUPLE2
    [] c.k = "CLType::Tuple3" -> CL_TYPE_TAG_TUPLE3
    [] c.k = "CLType::Any" -> CL_TYPE_TAG_ANY

\* CLType::append_bytes (contract-ffi): the bytes appended to the stream
RECURSIVE append_bytes(_)
\* append_bytes with the FixedList length written ahead of the element type
append_bytes_length_first(c) ==
  <<CLTypeTag(c)>> \o
  (CASE c.k \in {"CLType::Option", "CLType::List"} -> append_bytes(c.a[1])
     [] c.k = "CLType::FixedList" -> to_le_bytes(c.n, 4) \o append_bytes(c.a[1])
     [] c.k \in {"CLType::Result", "CLType::Map"} -> append_bytes(c.a[1]) \o append_bytes(c.a[2])
     [] c.k \in {"CLType::Tuple1", "CLType::Tuple2", "CLType::Tuple3"} ->
          Concat([i \in 1..Len(c.a) |-> append_bytes(c.a[i])])
     [] OTHER -> <<>>)

append_bytes(c) ==
  <<CLTypeTag(c)>> \o
  (CASE c.k \in {"CLType::Option", "CLType::List"} -> append_bytes(c.a[1])
     [] c.k = "CLType::FixedList" -> append_bytes(c.a[1]) \o to_le_bytes(c.n, 4)
     [] c.k \in {"CLType::Result", "CLType::Map"} -> append_bytes(c.a[1]) \o append_bytes(c.a[2])
     [] c.k \in {"CLType::Tuple1", "CLType::Tuple2", "CLType::Tuple3"} ->
          Concat([i \in 1..Len(c.a) |-> append_bytes(c.a[i])])
     [] OTHER -> <<>>)

serialized_length_of_cl_tuple_type_drop_last(lens) ==
  SumSeq(SubSeq(lens, 1, Len(lens) - 1))

serialized_length_of_cl_tuple_type(lens) == SumSeq(lens)

\* CLType::serialized_length (contract-ffi)
RECURSIVE cl_type_serialized_length(_)
cl_type_serialized_length(c) ==
  1 +
  (CASE c.k \in {"CLType::Option", "CLType::List"} -> cl_type_serialized_length(c.a[1])
     [] c.k = "CLType::FixedList" -> cl_type_serialized_length(c.a[1]) + 4
     [] c.k \in {"CLType::Result", "CLType::Map"} ->
          cl_type_serialized_length(c.a[1]) + cl_type_serialized_length(c.a[2])
     [] c.k \in {"CLType::Tuple1", "CLType::Tuple2", "CLType::Tuple3"} ->
          serialized_length_of_cl_tuple_type([i \in 1..Len(c.a) |-> cl_type_serialized_length(c.a[i])])
     [] OTHER -> 0)

\* bytesrepr::safe_split_at: may n bytes be split off?
safe_split_at(bytes, n) == ~(n > Len(bytes))

\* impl FromBytes for CLType, with parse_cl_tuple_types unrolled over count
RECURSIVE cl_type_from_bytes(_)
cl_type_from_bytes(bytes) ==
  IF bytes = <<>> THEN Err("EarlyEndOfStream")
  ELSE
  LET tag == bytes[1]
      rem == Tail(bytes)
      one == cl_type_from_bytes(rem)
      two == IF one.ok THEN cl_type_from_bytes(one.rem) ELSE one
      three == IF two.ok THEN cl_type_from_bytes(two.rem) ELSE two
  IN CASE tag = CL_TYPE_TAG_BOOL -> Ok(CLBool, rem)
       [] tag = CL_TYPE_TAG_I32 -> Ok(CLI32, rem)
       [] tag = CL_TYPE_TAG_I64 -> Ok(CLI64, rem)
       [] tag = CL_TYPE_TAG_U8 -> Ok(CLU8, rem)
       [] tag = CL_TYPE_TAG_U32 -> Ok(CLU32, rem)
       [] tag = CL_TYPE_TAG_U64 -> Ok(CLU64, rem)
       [] tag = CL_TYPE_TAG_U128 -> Ok(CLU128, rem)
       [] tag = CL_TYPE_TAG_U256 -> Ok(CLU256, rem)
       [] tag = CL_TYPE_TAG_U512 -> Ok(CLU512, rem)
       [] tag = CL_TYPE_TAG_UNIT -> Ok(CLUnit, rem)
       [] tag = CL_TYPE_TAG_STRING -> Ok(CLString, rem)
       [] tag = CL_TYPE_TAG_KEY -> Ok(CLKey, rem)
       [] tag = CL_TYPE_TAG_UREF -> Ok(CLURef, rem)
       [] tag = CL_TYPE_TAG_OPTION -> IF one.ok THEN Ok(CLOption(one.v), one.rem) ELSE one
       [] tag = CL_TYPE_TAG_LIST -> IF one.ok THEN Ok(CLList(one.v), one.rem) ELSE one
       [] tag = CL_TYPE_TAG_FIXED_LIST ->
            IF ~one.ok THEN one
            ELSE IF ~safe_split_at(one.rem, 4) THEN Err("EarlyEndOfStream")
            ELSE LET len == from_le_bytes(Take(one.rem, 4), FALSE)
                 IN  Ok(Mk("CLType::FixedList", len.n, len.s, <<one.v>>), Drop(one.rem, 4))
       [] tag = CL_TYPE_TAG_RESULT -> IF two.ok THEN Ok(CLResult(one.v, two.v), two.rem) ELSE two
       [] tag = CL_TYPE_TAG_MAP -> IF two.ok THEN Ok(CLMap(one.v, two.v), two.rem) ELSE two
       [] tag = CL_TYPE_TAG_TUPLE1 -> IF one.ok THEN Ok(CLTuple1(one.v), one.rem) ELSE one
       [] tag = CL_TYPE_TAG_TUPLE2 -> IF two.ok THEN Ok(CLTuple2(one.v, two.v), two.rem) ELSE two
       [] tag = CL_TYPE_TAG_TUPLE3 ->
            IF three.ok THEN Ok(CLTuple3(one.v, two.v, three.v), three.rem) ELSE three
       [] tag = CL_TYPE_TAG_ANY -> Ok(CLAny, rem)
       [] OTHER -> Err("FormattingError")

(***************************************************************************)
(* CLTyped::cl_type (the same table in both crates; PublicKey is types)    *)
(***************************************************************************)
RECURSIVE cl_type(_)
cl_type(t) ==
  CASE t.k = "bool" -> CLBool
    [] t.k = "i32" -> CLI32
    [] t.k = "i64" -> CLI64
    [] t.k = "u8" -> CLU8
    [] t.k = "u32" -> CLU32
    [] t.k = "u64" -> CLU64
    [] t.k = "()" -> CLUnit
    [] t.k = "String" -> CLString
    [] t.k = "Key" -> CLKey
    [] t.k = "URef" -> CLURef
    [] t.k = "PublicKey" -> CLFixedList(CLU8, 32)
    [] t.k = "Option" -> CLOption(cl_type(t.a[1]))
    [] t.k = "Vec" -> CLList(cl_type(t.a[1]))
    [] t.k = "Array" -> CLFixedList(cl_type(t.a[1]), t.n)
    [] t.k = "Result" -> CLResult(cl_type(t.a[1]), cl_type(t.a[2]))
    [] t.k = "BTreeMap" -> CLMap(cl_type(t.a[1]), cl_type(t.a[2]))
    [] t.k = "Tuple1" -> CLTuple1(cl_type(t.a[1]))
    [] t.k = "Tuple2" -> CLTuple2(cl_type(t.a[1]), cl_type(t.a[2]))
    [] t.k = "Tuple3" -> CLTuple3(cl_type(t.a[1]), cl_type(t.a[2]), cl_type(t.a[3]))

(***************************************************************************)
(* UTF-8 (core::str::from_utf8 as called by the decoders)                  *)
(***************************************************************************)
\* decode.rs UTF8_CHAR_WIDTH table
utf8_char_width(b) ==
  IF b < 128 THEN 1
  ELSE IF b < 194 THEN 0
  ELSE IF b < 224 THEN 2
  ELSE IF b < 240 THEN 3
  ELSE IF b < 245 THEN 4
  ELSE 0

IsCont(b) == b >= 128 /\ b < 192

\* is the sequence that starts bs one well-formed scalar value of width w?
Utf8First(bs, w) ==
  /\ w > 0
  /\ Len(bs) >= w
  /\ w >= 2 => /\ IsCont(bs[2])
               /\ bs[1] = 224 => bs[2] >= 160
               /\ bs[1] = 237 => bs[2] < 160
               /\ bs[1] = 240 => bs[2] >= 144
               /\ bs[1] = 244 => bs[2] < 144
  /\ w >= 3 => IsCont(bs[3])
  /\ w >= 4 => IsCont(bs[4])

RECURSIVE from_utf8(_)
from_utf8(bs) ==
  IF bs = <<>> THEN TRUE
  ELSE LET w == utf8_char_width(bs[1])
       IN  Utf8First(bs, w) /\ from_utf8(Drop(bs, w))

\* char::encode_utf8
encode_utf8(cp) ==
  IF cp < 128 THEN <<cp>>
  ELSE IF cp < 2048 THEN <<192 + (cp \div 64), 128 + (cp % 64)>>
  ELSE IF cp < 65536 THEN <<224 + (cp \div 4096), 128 + ((cp \div 64) % 64), 128 + (cp % 64)>>
  ELSE <<240 + (cp \div 262144), 128 + ((cp \div 4096) % 64), 128 + ((cp \div 64) % 64),
         128 + (cp % 64)>>

\* str::chars().next() of one well-formed scalar value
decode_utf8(bs) ==
  CASE Len(bs) = 1 -> bs[1]
    [] Len(bs) = 2 -> (bs[1] - 192) * 64 + (bs[2] - 128)
    [] Len(bs) = 3 -> (bs[1] - 224) * 4096 + (bs[2] - 128) * 64 + (bs[3] - 128)
    [] Len(bs) = 4 -> (bs[1] - 240) * 262144 + (bs[2] - 128) * 4096 + (bs[3] - 128) * 64 + (bs[4] - 128)

(***************************************************************************)
(* Ord of the map keys (BTreeMap order)                                    *)
(***************************************************************************)
RECURSIVE LexLess(_, _)
LexLess(x, y) ==
  IF y = <<>> THEN FALSE
  ELSE IF x = <<>> THEN TRUE
  ELSE IF x[1] # y[1] THEN x[1] < y[1]
  ELSE LexLess(Tail(x), Tail(y))

\* Ord::lt of two keys of the same type (integers, strings)
KeyLess(x, y) == IF x.k = "int" THEN x.n < y.n ELSE LexLess(x.s, y.s)

\* BTreeMap::insert on the sorted children k1, v1, k2, v2, ...
RECURSIVE btree_insert(_, _, _)
\* a map that keeps its entries in the order of their first insertion
btree_insert_unsorted(kvs, k, v) ==
  IF kvs = <<>> THEN <<k, v>>
  ELSE IF kvs[1] = k THEN <<k, v>> \o Drop(kvs, 2)
  ELSE Take(kvs, 2) \o btree_insert(Drop(kvs, 2), k, v)

btree_insert(kvs, k, v) ==
  IF kvs = <<>> THEN <<k, v>>
  ELSE IF kvs[1] = k THEN <<k, v>> \o Drop(kvs, 2)
  ELSE IF KeyLess(k, kvs[1]) THEN <<k, v>> \o kvs
  ELSE Take(kvs, 2) \o btree_insert(Drop(kvs, 2), k, v)

(***************************************************************************)
(* contract-ffi bytesrepr: ToBytes                                         *)
(* Every encoding of the model is far below u32::MAX bytes, so the         *)
(* OutOfMemoryError exits of to_bytes are never taken here.                *)
(***************************************************************************)
U8_SERIALIZED_LENGTH == 1

U32_SERIALIZED_LENGTH == 4

OPTION_TAG_SERIALIZED_LENGTH == 1

UREF_ADDR_LENGTH == 32

BLAKE2B_DIGEST_LENGTH == 32

ED25519_LENGTH == 32

KEY_HASH_LENGTH == 32

KEY_LOCAL_SEED_LENGTH == 32

ACCESS_RIGHTS_SERIALIZED_LENGTH == 1

UREF_SERIALIZED_LENGTH ==
  UREF_ADDR_LENGTH + OPTION_TAG_SERIALIZED_LENGTH + ACCESS_RIGHTS_SERIALIZED_LENGTH

IsByteArray(t) == t.k = "Array" /\ t.a[1].k = "u8"

\* the raw bytes of a sequence of u8 values
BytesOf(vs) == [i \in 1..Len(vs) |-> vs[i].n]

\* the numbers of a sequence of integer values
NumsOf(vs) == [i \in 1..Len(vs) |-> vs[i].n]

U8sOf(bs) == [i \in 1..Len(bs) |-> IntV(bs[i])]

\* the type of the i-th child of a composite value of type t
ElemType(t, i) ==
  CASE t.k \in {"Vec", "Array", "Option"} -> t.a[1]
    [] t.k = "BTreeMap" -> IF i % 2 = 1 THEN t.a[1] ELSE t.a[2]
    [] OTHER -> t.a[i]

\* impl ToBytes for Result: Ok is tag 1, Err is tag 0
result_tag_swapped(v) == IF v.k = "ok" THEN 0 ELSE 1

result_tag(v) == IF v.k = "ok" THEN 1 ELSE 0

\* ToBytes for Blake2bHash: the 32 bytes of the digest
blake2b_hash_to_bytes(v) == v.s

RECURSIVE to_bytes(_, _)
to_bytes(t, v) ==
  LET elems == Concat([i \in 1..Len(v.a) |-> to_bytes(ElemType(t, i), v.a[i])])
  IN CASE t.k \in {"bool", "u8", "AccessRights"} -> <<v.n>>
       [] t.k \in {"i32", "i64", "u32", "u64"} ->
            IF v.k = "wide" THEN v.s ELSE to_le_bytes(v.n, size_of(t))
       [] t.k = "Vec" ->
            IF t.a[1].k = "u8" THEN to_le_bytes(Len(v.a), 4) \o BytesOf(v.a)
            ELSE to_le_bytes(Len(v.a), 4) \o elems
       [] t.k = "Array" ->
            IF t.a[1].k = "u8" THEN BytesOf(v.a)
            ELSE to_le_bytes(t.n, 4) \o elems
       [] t.k = "Option" -> IF v.k = "some" THEN <<1>> \o elems ELSE <<0>>
       [] t.k = "String" -> to_le_bytes(Len(v.s), 4) \o v.s
       [] t.k = "()" -> <<>>
       [] t.k = "BTreeMap" -> to_le_bytes(Len(v.a) \div 2, 4) \o elems
       [] t.k = "Result" -> <<result_tag(v)>> \o to_bytes(IF v.k = "ok" THEN t.a[1] ELSE t.a[2], v.a[1])
       [] t.k \in {"Tuple1", "Tuple2", "Tuple3"} -> elems
       [] t.k = "URef" -> v.s \o to_bytes(TOption(TAccessRights), v.a[1])
       [] t.k = "CLType" -> append_bytes(v)
       [] t.k = "CLValue" ->
            to_le_bytes(Len(v.s), 4) \o v.s \o append_bytes(v.a[1]) \o to_bytes(TVec(TU32), v.a[2])
       [] t.k = "Blake2bHash" -> blake2b_hash_to_bytes(v)
       [] t.k = "Pointer" -> to_le_bytes(v.n, 4) \o v.s
       [] t.k = "Trie" ->
            to_le_bytes(v.n, 4) \o
            (CASE v.n = 0 -> to_bytes(t.a[1], v.a[1]) \o to_bytes(t.a[2], v.a[2])
               [] v.n = 1 -> to_bytes(TPointerBlock, v.a[1])
               [] v.n = 2 -> to_bytes(TVec(TU8), v.a[1]) \o to_bytes(TPointer, v.a[2]))

\* ToBytes::serialized_length
RECURSIVE serialized_length(_, _)
serialized_length(t, v) ==
  LET elems == SumSeq([i \in 1..Len(v.a) |-> serialized_length(ElemType(t, i), v.a[i])])
  IN CASE t.k \in {"bool", "u8", "AccessRights"} -> 1
       [] t.k \in {"i32", "i64", "u32", "u64"} -> size_of(t)
       [] t.k = "Vec" ->
            IF t.a[1].k = "u8" THEN U32_SERIALIZED_LENGTH + Len(v.a)
            ELSE U32_SERIALIZED_LENGTH + elems
       [] t.k = "Array" -> IF t.a[1].k = "u8" THEN t.n ELSE U32_SERIALIZED_LENGTH + elems
       [] t.k = "Option" -> U8_SERIALIZED_LENGTH + (IF v.k = "some" THEN elems ELSE 0)
       [] t.k = "String" -> U32_SERIALIZED_LENGTH + Len(v.s)
       [] t.k = "()" -> 0
       [] t.k = "BTreeMap" -> U32_SERIALIZED_LENGTH + elems
       [] t.k = "Result" ->
            U8_SERIALIZED_LENGTH + serialized_length(IF v.k = "ok" THEN t.a[1] ELSE t.a[2], v.a[1])
       [] t.k \in {"Tuple1", "Tuple2", "Tuple3"} -> elems
       [] t.k = "URef" -> UREF_ADDR_LENGTH + serialized_length(TOption(TAccessRights), v.a[1])
       [] t.k = "Blake2bHash" -> BLAKE2B_DIGEST_LENGTH
       [] t.k = "Pointer" -> U32_SERIALIZED_LENGTH + BLAKE2B_DIGEST_LENGTH
       [] t.k = "Trie" ->
            U32_SERIALIZED_LENGTH +
            (CASE v.n = 0 -> serialized_length(t.a[1], v.a[1]) + serialized_length(t.a[2], v.a[2])
               [] v.n = 1 -> serialized_length(TPointerBlock, v.a[1])
               [] v.n = 2 -> serialized_length(TVec(TU8), v.a[1]) + serialized_length(TPointer, v.a[2]))
       [] t.k = "CLType" -> cl_type_serialized_length(v)
       [] t.k = "CLValue" ->
            (U32_SERIALIZED_LENGTH + Len(v.s)) + cl_type_serialized_length(v.a[1])
              + serialized_length(TVec(TU32), v.a[2])

Shifted_not(offs, by) == offs

\* the offsets of one child, moved by the running offset of that child
Shifted(offs, by) == [i \in 1..Len(offs) |-> offs[i] + by]

\* ToBytes::uref_offsets; the running offset of child i is the start plus
\* the serialized lengths of the children before it
RECURSIVE uref_offsets(_, _)
uref_offsets(t, v) ==
  LET running(start, i) ==
        start + SumSeq([j \in 1..(i - 1) |-> serialized_length(ElemType(t, j), v.a[j])])
      walk(start) ==
        Concat([i \in 1..Len(v.a) |->
                  Shifted(uref_offsets(ElemType(t, i), v.a[i]), running(start, i))])
  IN CASE t.k = "Vec" -> IF t.a[1].k = "u8" THEN <<>> ELSE walk(U32_SERIALIZED_LENGTH)
       [] t.k = "Array" -> IF t.a[1].k = "u8" THEN <<>> ELSE walk(U32_SERIALIZED_LENGTH)
       [] t.k = "BTreeMap" -> walk(U32_SERIALIZED_LENGTH)
       [] t.k = "Option" -> IF v.k = "some" THEN walk(U8_SERIALIZED_LENGTH) ELSE <<>>
       [] t.k = "Result" ->
            Shifted(uref_offsets(IF v.k = "ok" THEN t.a[1] ELSE t.a[2], v.a[1]), U8_SERIALIZED_LENGTH)
       [] t.k \in {"Tuple1", "Tuple2", "Tuple3"} -> walk(0)
       [] t.k = "URef" -> <<0>>
       [] t.k = "CLValue" -> NumsOf(v.a[2].a)
       [] OTHER -> <<>>

(***************************************************************************)
(* contract-ffi bytesrepr: FromBytes                                       *)
(***************************************************************************)
\* a decoded u32 used as an element count; a count the checker cannot hold
\* is at least 2^31 and is kept as the largest integer
U32Sat == 2147483646 + 1

CountOf(v) == IF v.k = "wide" THEN U32Sat ELSE v.n

\* the number of keys and values of a map of that many entries
PairCount(v) == IF CountOf(v) > U32Sat \div 2 THEN U32Sat ELSE 2 * CountOf(v)

\* a from_bits that takes every byte
from_bits_unchecked(id) == TRUE

\* AccessRights::from_bits: only READ | WRITE | ADD bits are defined
from_bits(id) == id < 8

\* Vec::try_reserve_exact: does the allocator grant size elements?
try_reserve_exact(size) == size <= mem

\* u32::from_bytes
u32_from_bytes(bytes) ==
  IF ~safe_split_at(bytes, 4) THEN Err("EarlyEndOfStream")
  ELSE Ok(from_le_bytes(Take(bytes, 4), FALSE), Drop(bytes, 4))

\* FromBytes for Blake2bHash: the next 32 bytes
blake2b_hash_from_bytes(bytes) ==
  IF ~safe_split_at(bytes, BLAKE2B_DIGEST_LENGTH) THEN Err("EarlyEndOfStream")
  ELSE Ok(BytesV(Take(bytes, BLAKE2B_DIGEST_LENGTH)), Drop(bytes, BLAKE2B_DIGEST_LENGTH))

\* a bool decoder that takes every non-zero byte for true
bool_from_bytes_coercing(bytes) ==
  IF bytes = <<>> THEN Err("EarlyEndOfStream")
  ELSE IF bytes[1] = 0 THEN Ok(BoolV(FALSE), Tail(bytes))
  ELSE Ok(BoolV(TRUE), Tail(bytes))

\* impl FromBytes for bool
bool_from_bytes(bytes) ==
  IF bytes = <<>> THEN Err("EarlyEndOfStream")
  ELSE IF bytes[1] = 1 THEN Ok(BoolV(TRUE), Tail(bytes))
  ELSE IF bytes[1] = 0 THEN Ok(BoolV(FALSE), Tail(bytes))
  ELSE Err("FormattingError")

RECURSIVE from_bytes(_, _)
RECURSIVE from_bytes_seq(_, _, _, _, _)
\* decode the children i..count of a composite of type t one after the other
\* (the for loops of Vec, [T; N], BTreeMap and the tuples), each from what
\* the one before left; the first error is returned.  The range is walked by
\* halves, the first half before the second.
from_bytes_seq(t, i, count, stream, acc) ==
  IF i > count THEN Ok(SeqV(acc), stream)
  ELSE IF i = count THEN
    LET r == from_bytes(ElemType(t, i), stream)
    IN  IF ~r.ok THEN r ELSE Ok(SeqV(Append(acc, r.v)), r.rem)
  ELSE LET mid == i + ((count - i) \div 2)
           first == from_bytes_seq(t, i, mid, stream, acc)
       IN  IF ~first.ok THEN first
           ELSE from_bytes_seq(t, mid + 1, count, first.rem, first.v.a)

\* BTreeMap::from_bytes inserts each decoded pair
RECURSIVE collect_map(_, _)
collect_map(kvs, acc) ==
  IF kvs = <<>> THEN acc
  ELSE collect_map(Drop(kvs, 2), btree_insert(acc, kvs[1], kvs[2]))

\* an array decoder that reads the length prefix and does not compare it
array_from_bytes_any_prefix(t, bytes) ==
  LET size == u32_from_bytes(bytes)
  IN  IF ~size.ok THEN size
      ELSE from_bytes_seq(t, 1, t.n, size.rem, <<>>)

\* impl FromBytes for [T; N]: the prefix must be N, then the N elements
array_from_bytes(t, bytes) ==
  LET size == u32_from_bytes(bytes)
  IN  IF ~size.ok THEN size
      ELSE IF size.v # IntV(t.n) THEN Err("FormattingError")
      ELSE from_bytes_seq(t, 1, t.n, size.rem, <<>>)

from_bytes(t, bytes) ==
  CASE t.k = "bool" -> bool_from_bytes(bytes)
    [] t.k = "u8" ->
         IF bytes = <<>> THEN Err("EarlyEndOfStream") ELSE Ok(IntV(bytes[1]), Tail(bytes))
    [] t.k \in {"i32", "i64", "u32", "u64"} ->
         IF ~safe_split_at(bytes, size_of(t)) THEN Err("EarlyEndOfStream")
         ELSE Ok(from_le_bytes(Take(bytes, size_of(t)), IsSigned(t)), Drop(bytes, size_of(t)))
    [] t.k = "Vec" ->
         LET size == u32_from_bytes(bytes)
         IN  IF ~size.ok THEN size
             ELSE IF ~try_reserve_exact(CountOf(size.v)) THEN Err("OutOfMemoryError")
             ELSE IF t.a[1].k = "u8" THEN
               IF ~safe_split_at(size.rem, CountOf(size.v)) THEN Err("EarlyEndOfStream")
               ELSE Ok(SeqV(U8sOf(Take(size.rem, size.v.n))), Drop(size.rem, size.v.n))
             ELSE from_bytes_seq(t, 1, CountOf(size.v), size.rem, <<>>)
    [] t.k = "Array" ->
         IF t.a[1].k = "u8" THEN
           IF ~safe_split_at(bytes, t.n) THEN Err("EarlyEndOfStream")
           ELSE Ok(SeqV(U8sOf(Take(bytes, t.n))), Drop(bytes, t.n))
         ELSE array_from_bytes(t, bytes)
    [] t.k = "Option" ->
         IF bytes = <<>> THEN Err("EarlyEndOfStream")
         ELSE IF bytes[1] = 0 THEN Ok(None, Tail(bytes))
         ELSE IF bytes[1] = 1 THEN
           LET r == from_bytes(t.a[1], Tail(bytes))
           IN  IF r.ok THEN Ok(Some(r.v), r.rem) ELSE r
         ELSE Err("FormattingError")
    [] t.k = "String" ->
         LET r == from_bytes(TVec(TU8), bytes)
         IN  IF ~r.ok THEN r
             ELSE IF ~from_utf8(BytesOf(r.v.a)) THEN Err("FormattingError")
             ELSE Ok(StrV(BytesOf(r.v.a)), r.rem)
    [] t.k = "()" -> Ok(Unit, bytes)
    [] t.k = "BTreeMap" ->
         LET num_keys == u32_from_bytes(bytes)
         IN  IF ~num_keys.ok THEN num_keys
             ELSE LET r == from_bytes_seq(t, 1, PairCount(num_keys.v), num_keys.rem, <<>>)
                  IN  IF r.ok THEN Ok(MapV(collect_map(r.v.a, <<>>)), r.rem) ELSE r
    [] t.k = "Result" ->
         IF bytes = <<>> THEN Err("EarlyEndOfStream")
         ELSE IF bytes[1] = 0 THEN
           LET r == from_bytes(t.a[2], Tail(bytes))
           IN  IF r.ok THEN Ok(ErrV(r.v), r.rem) ELSE r
         ELSE IF bytes[1] = 1 THEN
           LET r == from_bytes(t.a[1], Tail(bytes))
           IN  IF r.ok THEN Ok(OkV(r.v), r.rem) ELSE r
         ELSE Err("FormattingError")
    [] t.k \in {"Tuple1", "Tuple2", "Tuple3"} -> from_bytes_seq(t, 1, Len(t.a), bytes, <<>>)
    [] t.k = "AccessRights" ->
         IF bytes = <<>> THEN Err("EarlyEndOfStream")
         ELSE IF from_bits(bytes[1]) THEN Ok(IntV(bytes[1]), Tail(bytes))
         ELSE Err("FormattingError")
    [] t.k = "URef" ->
         IF ~safe_split_at(bytes, UREF_ADDR_LENGTH) THEN Err("EarlyEndOfStream")
         ELSE LET r == from_bytes(TOption(TAccessRights), Drop(bytes, UREF_ADDR_LENGTH))
              IN  IF r.ok THEN Ok(URefV(Take(bytes, UREF_ADDR_LENGTH), r.v), r.rem) ELSE r
    [] t.k = "CLType" -> cl_type_from_bytes(bytes)
    [] t.k = "CLValue" ->
         LET b == from_bytes(TVec(TU8), bytes)
             c == IF b.ok THEN cl_type_from_bytes(b.rem) ELSE b
             o == IF c.ok THEN from_bytes(TVec(TU32), c.rem) ELSE c
         IN  IF o.ok THEN Ok(Mk("clvalue", 0, BytesOf(b.v.a), <<c.v, o.v>>), o.rem) ELSE o
    [] t.k = "Blake2bHash" -> blake2b_hash_from_bytes(bytes)
    [] t.k = "Pointer" ->
         LET tag == u32_from_bytes(bytes)
             hash == from_bytes(TBlake2bHash, tag.rem)
         IN  IF ~tag.ok THEN tag
             ELSE IF tag.v \in {IntV(0), IntV(1)} THEN
               IF hash.ok THEN Ok(PointerV(tag.v.n, hash.v.s), hash.rem) ELSE hash
             ELSE Err("FormattingError")
    [] t.k = "Trie" ->
         LET tag == u32_from_bytes(bytes)
         IN  IF ~tag.ok THEN tag
             ELSE IF tag.v = IntV(0) THEN
               LET key == from_bytes(t.a[1], tag.rem)
                   value == IF key.ok THEN from_bytes(t.a[2], key.rem) ELSE key
               IN  IF value.ok THEN Ok(LeafV(key.v, value.v), value.rem) ELSE value
             ELSE IF tag.v = IntV(1) THEN
               LET pointer_block == from_bytes(TPointerBlock, tag.rem)
               IN  IF pointer_block.ok THEN Ok(NodeV(pointer_block.v), pointer_block.rem)
                   ELSE pointer_block
             ELSE IF tag.v = IntV(2) THEN
               LET affix == from_bytes(TVec(TU8), tag.rem)
                   pointer == IF affix.ok THEN from_bytes(TPointer, affix.rem) ELSE affix
               IN  IF pointer.ok THEN Ok(ExtensionV(affix.v, pointer.v), pointer.rem) ELSE pointer
             ELSE Err("FormattingError")

\* FromBytes::from_vec: from_bytes, except for Vec<u8>, which splits the
\* vector in place without reserving
from_vec(t, bytes) ==
  IF t.k = "Vec" /\ t.a[1].k = "u8" THEN
    LET size == u32_from_bytes(bytes)
    IN  IF ~size.ok THEN size
        ELSE IF CountOf(size.v) > Len(size.rem) THEN Err("EarlyEndOfStream")
        ELSE Ok(SeqV(U8sOf(Take(size.rem, size.v.n))), Drop(size.rem, size.v.n))
  ELSE from_bytes(t, bytes)

bytesrepr_deserialize_lenient(t, bytes) ==
  LET used_up(r) == IF ~r.ok THEN r ELSE Ok(r.v, <<>>)
  IN  used_up(from_vec(t, bytes))

\* bytesrepr::deserialize: from_vec, then the buffer must be used up
bytesrepr_deserialize(t, bytes) ==
  LET used_up(r) ==
        IF ~r.ok THEN r
        ELSE IF r.rem = <<>> THEN Ok(r.v, <<>>)
        ELSE Err("LeftOverBytes")
  IN  used_up(from_vec(t, bytes))

(***************************************************************************)
(* types encoding: the calls T::serialize makes on a serde Serializer      *)
(***************************************************************************)
\* types CLValue { bytes, cl_type }
TCLValueV(cl_type_, bytes) == Mk("tclvalue", 0, bytes, <<cl_type_>>)

Ev(op, n, s) == [op |-> op, n |-> n, s |-> s]

\* the variant index serde derives for Result: Ok is 0, Err is 1
result_index(v) == IF v.k = "ok" THEN 0 ELSE 1

\* #[derive(Serialize)] for types CLType: the variant index is the position
\* in the declaration, the fields follow
RECURSIVE cl_type_serialize(_)
cl_type_serialize(c) ==
  <<Ev("serialize_variant", CLTypeTag(c), <<>>)>> \o
  (CASE c.k = "CLType::FixedList" ->
          cl_type_serialize(c.a[1]) \o <<Ev("serialize_int", 4, to_le_bytes(c.n, 4))>>
     [] OTHER -> Concat([i \in 1..Len(c.a) |-> cl_type_serialize(c.a[i])]))

RECURSIVE serialize(_, _)
serialize(t, v) ==
  LET elems == Concat([i \in 1..Len(v.a) |-> serialize(ElemType(t, i), v.a[i])])
  IN CASE t.k = "bool" -> <<Ev("serialize_bool", v.n, <<>>)>>
       [] IsIntType(t) ->
            <<Ev("serialize_int", size_of(t),
                 IF v.k = "wide" THEN v.s ELSE to_le_bytes(v.n, size_of(t)))>>
       [] t.k = "()" -> <<>>
       [] t.k = "String" -> <<Ev("serialize_str", 0, v.s)>>
       [] t.k = "char" -> <<Ev("serialize_char", v.n, <<>>)>>
       [] t.k = "Option" ->
            IF v.k = "some" THEN <<Ev("serialize_some", 0, <<>>)>> \o elems
            ELSE <<Ev("serialize_none", 0, <<>>)>>
       [] t.k = "Vec" -> <<Ev("serialize_seq", Len(v.a), <<>>)>> \o elems
       [] t.k = "BTreeMap" -> <<Ev("serialize_map", Len(v.a) \div 2, <<>>)>> \o elems
       [] t.k \in {"Array", "Tuple1", "Tuple2", "Tuple3"} -> elems
       [] t.k = "Result" ->
            <<Ev("serialize_variant", result_index(v), <<>>)>>
              \o serialize(IF v.k = "ok" THEN t.a[1] ELSE t.a[2], v.a[1])
       [] t.k = "AccessRights" -> <<Ev("serialize_int", 1, <<v.n>>)>>
       [] t.k = "URef" ->
            <<Ev("serialize_bytes", 0, v.s), Ev("serialize_int", 1, <<v.n>>)>>
       [] t.k = "PublicKey" -> <<Ev("serialize_bytes", 0, v.s)>>
       [] t.k = "Key" ->
            <<Ev("serialize_variant", v.n, <<>>)>> \o
            (CASE v.n = 0 -> serialize(TPublicKey, v.a[1])
               [] v.n = 1 -> <<Ev("serialize_bytes", 0, v.a[1].s)>>
               [] v.n = 2 -> serialize(TURef, v.a[1])
               [] v.n = 3 -> <<Ev("serialize_bytes", 0, v.a[1].s),
                               Ev("serialize_bytes", 0, v.a[2].s)>>)
       [] t.k = "CLType" -> cl_type_serialize(v)
       [] t.k = "CLValue" -> <<Ev("serialize_bytes", 0, v.s)>> \o cl_type_serialize(v.a[1])

\* impl serde::Serializer for &mut Serializer: the bytes one call pushes
Serializer(ev) ==
  CASE ev.op \in {"serialize_bool", "serialize_variant"} -> <<ev.n>>
    [] ev.op = "serialize_int" -> ev.s
    [] ev.op \in {"serialize_str", "serialize_bytes"} -> to_le_bytes(Len(ev.s), 4) \o ev.s
    [] ev.op = "serialize_char" -> encode_utf8(ev.n)
    [] ev.op = "serialize_none" -> <<0>>
    [] ev.op = "serialize_some" -> <<1>>
    [] ev.op \in {"serialize_seq", "serialize_map"} -> to_le_bytes(ev.n, 4)

\* SizeChecker::new: the limit is u32::max_value(); no size of the model
\* comes near it or near the largest integer of the checker
SizeChecker == [limit |-> U32Sat, total |-> 0, ok |-> TRUE]

\* SizeChecker::add_raw
add_raw(sc, size) ==
  IF ~sc.ok THEN sc
  ELSE IF sc.limit >= size THEN [limit |-> sc.limit - size, total |-> sc.total + size, ok |-> TRUE]
  ELSE [sc EXCEPT !.ok = FALSE]

\* impl serde::Serializer for &mut SizeChecker: what one call adds
size_check(sc, ev) ==
  CASE ev.op \in {"serialize_bool", "serialize_variant", "serialize_none", "serialize_some"} ->
         add_raw(sc, 1)
    [] ev.op = "serialize_int" -> add_raw(sc, ev.n)
    [] ev.op \in {"serialize_str", "serialize_bytes"} -> add_raw(add_raw(sc, 4), Len(ev.s))
    [] ev.op = "serialize_char" -> add_raw(sc, Len(encode_utf8(ev.n)))
    [] ev.op \in {"serialize_seq", "serialize_map"} -> add_raw(sc, 4)

RECURSIVE size_check_all(_, _)
size_check_all(sc, evs) ==
  IF evs = <<>> THEN sc ELSE size_check_all(size_check(sc, Head(evs)), Tail(evs))

\* encoding::serialized_length
encoding_serialized_length(t, v) ==
  LET sc == size_check_all(SizeChecker, serialize(t, v))
  IN  IF sc.ok THEN Ok(IntV(sc.total), <<>>) ELSE Err("SizeLimit")

\* encoding::serialize
encoding_serialize(t, v) ==
  LET evs == serialize(t, v)
  IN  IF ~encoding_serialized_length(t, v).ok THEN Err("SizeLimit")
      ELSE Ok(BytesV(Concat([i \in 1..Len(evs) |-> Serializer(evs[i])])), <<>>)

(***************************************************************************)
(* types encoding: Deserializer                                            *)
(***************************************************************************)
\* Deserializer::take_bytes
take_bytes(input, count) ==
  IF count > Len(input) THEN Err("EndOfSlice")
  ELSE Ok(BytesV(Take(input, count)), Drop(input, count))

deserialize_byte_or_zero(input) ==
  IF input = <<>> THEN Ok(IntV(0), <<>>) ELSE Ok(IntV(input[1]), Tail(input))

\* Deserializer::deserialize_byte
deserialize_byte(input) ==
  IF input = <<>> THEN Err("EndOfSlice") ELSE Ok(IntV(input[1]), Tail(input))

\* Deserializer::deserialize_length
deserialize_length(input) ==
  LET to_length(bytes) ==
        IF ~bytes.ok THEN bytes ELSE Ok(from_le_bytes(bytes.v.s, FALSE), bytes.rem)
  IN  to_length(take_bytes(input, 4))

\* the length buffer[1..remaining_len] has: copy_from_slice panics unless
\* it is the length of the source slice
char_buffer_len(remaining_len) == remaining_len - 1

\* Deserializer::deserialize_char
deserialize_char(input) ==
  LET first_byte == deserialize_byte(input)
      width == utf8_char_width(first_byte.v.n)
      remaining_len == width - 1
      remaining_bytes == take_bytes(first_byte.rem, remaining_len)
      buffer == <<first_byte.v.n>> \o remaining_bytes.v.s
  IN  IF ~first_byte.ok THEN first_byte
      ELSE IF width = 1 THEN Ok(CharV(first_byte.v.n), first_byte.rem)
      ELSE IF width = 0 THEN Err("InvalidCharEncoding")
      ELSE IF ~remaining_bytes.ok THEN remaining_bytes
      ELSE IF char_buffer_len(remaining_len) # Len(remaining_bytes.v.s) THEN Panic
      ELSE IF ~from_utf8(buffer) THEN Err("InvalidCharEncoding")
      ELSE Ok(CharV(decode_utf8(buffer)), remaining_bytes.rem)

\* Deserializer::deserialize_bytes / deserialize_byte_buf
deserialize_bytes(input) ==
  LET of_length(length) ==
        IF ~length.ok THEN length ELSE take_bytes(length.rem, CountOf(length.v))
  IN  of_length(deserialize_length(input))

\* a byte-array field: deserialize_bytes, then the length check of the
\* visitor (URef, Key, Ed25519)
deserialize_bytes_of_len(input, len) ==
  LET visit_bytes(bytes) ==
        IF ~bytes.ok THEN bytes
        ELSE IF Len(bytes.v.s) # len THEN Err("Custom")
        ELSE bytes
  IN  visit_bytes(deserialize_bytes(input))

\* #[derive(Deserialize)] for types CLType
RECURSIVE cl_type_deserialize(_)
cl_type_deserialize(input) ==
  LET index == deserialize_byte(input)
      one == cl_type_deserialize(index.rem)
      two == IF one.ok THEN cl_type_deserialize(one.rem) ELSE one
      three == IF two.ok THEN cl_type_deserialize(two.rem) ELSE two
      tag == index.v.n
  IN  IF ~index.ok THEN index
      ELSE IF tag > CL_TYPE_TAG_ANY THEN Err("Custom")
      ELSE IF tag \in {CL_TYPE_TAG_OPTION, CL_TYPE_TAG_LIST, CL_TYPE_TAG_TUPLE1} THEN
        IF ~one.ok THEN one
        ELSE Ok(CASE tag = CL_TYPE_TAG_OPTION -> CLOption(one.v)
                  [] tag = CL_TYPE_TAG_LIST -> CLList(one.v)
                  [] tag = CL_TYPE_TAG_TUPLE1 -> CLTuple1(one.v), one.rem)
      ELSE IF tag = CL_TYPE_TAG_FIXED_LIST THEN
        LET len == IF one.ok THEN deserialize_length(one.rem) ELSE one
        IN  IF ~len.ok THEN len
            ELSE Ok(Mk("CLType::FixedList", len.v.n, len.v.s, <<one.v>>), len.rem)
      ELSE IF tag \in {CL_TYPE_TAG_RESULT, CL_TYPE_TAG_MAP, CL_TYPE_TAG_TUPLE2} THEN
        IF ~two.ok THEN two
        ELSE Ok(CASE tag = CL_TYPE_TAG_RESULT -> CLResult(one.v, two.v)
                  [] tag = CL_TYPE_TAG_MAP -> CLMap(one.v, two.v)
                  [] tag = CL_TYPE_TAG_TUPLE2 -> CLTuple2(one.v, two.v), two.rem)
      ELSE IF tag = CL_TYPE_TAG_TUPLE3 THEN
        IF three.ok THEN Ok(CLTuple3(one.v, two.v, three.v), three.rem) ELSE three
      ELSE Ok(CHOOSE c \in {CLBool, CLI32, CLI64, CLU8, CLU32, CLU64, CLU128, CLU256, CLU512,
                            CLUnit, CLString, CLKey, CLURef, CLAny} : CLTypeTag(c) = tag,
              index.rem)

RECURSIVE deserialize(_, _)
RECURSIVE deserialize_tuple(_, _, _, _, _)
\* Access::next_element_seed / next_key_seed / next_value_seed driven by the
\* visitor: the children i..length are decoded one after the other, each
\* from what the one before left.  The range is walked by halves, the first
\* half before the second.
deserialize_tuple(t, i, length, input, acc) ==
  IF i > length THEN Ok(SeqV(acc), input)
  ELSE IF i = length THEN
    LET r == deserialize(ElemType(t, i), input)
    IN  IF ~r.ok THEN r ELSE Ok(SeqV(Append(acc, r.v)), r.rem)
  ELSE LET mid == i + ((length - i) \div 2)
           first == deserialize_tuple(t, i, mid, input, acc)
       IN  IF ~first.ok THEN first
           ELSE deserialize_tuple(t, mid + 1, length, first.rem, first.v.a)

deserialize(t, input) ==
  CASE t.k = "bool" ->
         LET b == deserialize_byte(input)
         IN  IF ~b.ok THEN b
             ELSE IF b.v.n = 1 THEN Ok(BoolV(TRUE), b.rem)
             ELSE IF b.v.n = 0 THEN Ok(BoolV(FALSE), b.rem)
             ELSE Err("InvalidBoolEncoding")
    [] IsIntType(t) ->
         LET bytes == take_bytes(input, size_of(t))
         IN  IF ~bytes.ok THEN bytes ELSE Ok(from_le_bytes(bytes.v.s, IsSigned(t)), bytes.rem)
    [] t.k = "()" -> Ok(Unit, input)
    [] t.k = "String" ->
         LET visit_str(bytes) ==
               IF ~bytes.ok THEN bytes
               ELSE IF ~from_utf8(bytes.v.s) THEN Err("Utf8")
               ELSE Ok(StrV(bytes.v.s), bytes.rem)
         IN  visit_str(deserialize_bytes(input))
    [] t.k = "char" -> deserialize_char(input)
    [] t.k = "Option" ->
         LET value == deserialize_byte(input)
             r == deserialize(t.a[1], value.rem)
         IN  IF ~value.ok THEN value
             ELSE IF value.v.n = 0 THEN Ok(None, value.rem)
             ELSE IF value.v.n = 1 THEN (IF r.ok THEN Ok(Some(r.v), r.rem) ELSE r)
             ELSE Err("InvalidTagEncoding")
    [] t.k = "Vec" ->
         LET visit_seq(length) ==
               IF ~length.ok THEN length
               ELSE deserialize_tuple(t, 1, CountOf(length.v), length.rem, <<>>)
         IN  visit_seq(deserialize_length(input))
    [] t.k = "BTreeMap" ->
         LET collect(r) == IF r.ok THEN Ok(MapV(collect_map(r.v.a, <<>>)), r.rem) ELSE r
             visit_map(length) ==
               IF ~length.ok THEN length
               ELSE collect(deserialize_tuple(t, 1, PairCount(length.v), length.rem, <<>>))
         IN  visit_map(deserialize_length(input))
    [] t.k = "Array" -> deserialize_tuple(t, 1, t.n, input, <<>>)
    [] t.k \in {"Tuple1", "Tuple2", "Tuple3"} -> deserialize_tuple(t, 1, Len(t.a), input, <<>>)
    [] t.k = "Result" ->
         LET index == deserialize_byte(input)
             r == deserialize(IF index.v.n = 0 THEN t.a[1] ELSE t.a[2], index.rem)
         IN  IF ~index.ok THEN index
             ELSE IF index.v.n > 1 THEN Err("Custom")
             ELSE IF ~r.ok THEN r
             ELSE Ok(IF index.v.n = 0 THEN OkV(r.v) ELSE ErrV(r.v), r.rem)
    [] t.k = "AccessRights" ->
         LET value == deserialize_byte(input)
         IN  IF ~value.ok THEN value
             ELSE IF from_bits(value.v.n) THEN value
             ELSE Err("Custom")
    [] t.k = "URef" ->
         LET uref(bytes, rights) ==
               IF rights.ok THEN Ok(TURefV(bytes.v.s, rights.v.n), rights.rem) ELSE rights
             visit_addr(bytes) ==
               uref(bytes, IF bytes.ok THEN deserialize(TAccessRights, bytes.rem) ELSE bytes)
         IN  visit_addr(deserialize_bytes_of_len(input, UREF_ADDR_LENGTH))
    [] t.k = "PublicKey" ->
         LET visit_key(bytes) ==
               IF bytes.ok THEN Ok(PublicKeyV(bytes.v.s), bytes.rem) ELSE bytes
         IN  visit_key(deserialize_bytes_of_len(input, ED25519_LENGTH))
    [] t.k = "Key" ->
         LET variant_tag == deserialize_byte(input)
             rem == variant_tag.rem
             variant(n, payload) ==
               IF payload.ok THEN Ok(KeyV(n, <<payload.v>>), payload.rem) ELSE payload
             local(pair1, pair2) ==
               IF ~pair2.ok THEN pair2
               ELSE IF Len(pair1.v.s) # KEY_LOCAL_SEED_LENGTH THEN Err("Custom")
               ELSE IF Len(pair2.v.s) # KEY_LOCAL_SEED_LENGTH THEN Err("Custom")
               ELSE Ok(KeyV(3, <<pair1.v, pair2.v>>), pair2.rem)
             visit_pair(pair1) ==
               local(pair1, IF pair1.ok THEN deserialize_bytes(pair1.rem) ELSE pair1)
         IN  IF ~variant_tag.ok THEN variant_tag
             ELSE CASE variant_tag.v.n = 0 -> variant(0, deserialize(TPublicKey, rem))
                    [] variant_tag.v.n = 1 ->
                         variant(1, deserialize_bytes_of_len(rem, KEY_HASH_LENGTH))
                    [] variant_tag.v.n = 2 -> variant(2, deserialize(TURef, rem))
                    [] variant_tag.v.n = 3 -> visit_pair(deserialize_bytes(rem))
                    [] OTHER -> Err("Custom")
    [] t.k = "CLType" -> cl_type_deserialize(input)
    [] t.k = "CLValue" ->
         LET cl_value(bytes, c) == IF c.ok THEN Ok(TCLValueV(c.v, bytes.v.s), c.rem) ELSE c
             visit_bytes(bytes) ==
               cl_value(bytes, IF bytes.ok THEN cl_type_deserialize(bytes.rem) ELSE bytes)
         IN  visit_bytes(deserialize_bytes(input))

\* encoding::deserialize: the value T::deserialize returns; what is left of
\* the input is dropped
encoding_deserialize(t, bytes) ==
  LET value_of(result) == IF ~result.ok THEN result ELSE Ok(result.v, <<>>)
  IN  value_of(deserialize(t, bytes))

(***************************************************************************)
(* CLValue (contract-ffi)                                                  *)
(***************************************************************************)
OkT(v) == Ok(v, <<>>)

\* CLValueError::Serialization(error)
Serialization(r) == Err(r.e)

CLTypeMismatch_swapped(expected, found) ==
  [ok |-> FALSE, v |-> Mk("CLTypeMismatch", 0, <<>>, <<found, expected>>), rem |-> <<>>, e |-> "Type"]

\* CLValueError::Type(CLTypeMismatch { expected, found })
CLTypeMismatch(expected, found) ==
  [ok |-> FALSE, v |-> Mk("CLTypeMismatch", 0, <<>>, <<expected, found>>), rem |-> <<>>, e |-> "Type"]

from_t_any(t, v) == CLValueV(CLAny, to_bytes(t, v), <<>>)

\* CLValue::from_t
from_t(t, v) == CLValueV(cl_type(t), to_bytes(t, v), [i \in 1..Len(uref_offsets(t, v)) |-> IntV(uref_offsets(t, v)[i])])

\* CLValue::into_t::<U>
into_t(self, u) ==
  LET expected == cl_type(u)
      try(r) == IF r.ok THEN OkT(r.v) ELSE Serialization(r)
  IN  IF self.a[1] = expected THEN try(bytesrepr_deserialize(u, self.s))
      ELSE CLTypeMismatch(expected, self.a[1])

\* CLValue::from_components
from_components(cl_type_, bytes, offsets) == CLValueV(cl_type_, bytes, offsets)

\* CLValue::contained_urefs: one URef::from_bytes per stored offset; the
\* first error ends the loop
RECURSIVE contained_urefs_loop(_, _, _)
contained_urefs_loop(bytes, offsets, result) ==
  IF offsets = <<>> THEN OkT(SeqV(result))
  ELSE LET offset == CountOf(Head(offsets))
           push(uref) ==
             IF ~uref.ok THEN Serialization(uref)
             ELSE contained_urefs_loop(bytes, Tail(offsets), Append(result, uref.v))
       IN  IF ~safe_split_at(bytes, offset) THEN Err("EarlyEndOfStream")
           ELSE push(from_bytes(TURef, Drop(bytes, offset)))

contained_urefs(self) == contained_urefs_loop(self.s, self.a[2].a, <<>>)

(***************************************************************************)
(* CLValue (types)                                                         *)
(***************************************************************************)
\* CLValue::from_t
types_from_t(t, v) ==
  LET bytes == encoding_serialize(t, v)
  IN  TCLValueV(cl_type(t), bytes.v.s)

\* CLValue::into_t::<U>
types_into_t(self, u) ==
  LET expected == cl_type(u)
      try(r) == IF r.ok THEN OkT(r.v) ELSE Serialization(r)
  IN  IF self.a[1] = expected THEN try(encoding_deserialize(u, self.s))
      ELSE CLTypeMismatch(expected, self.a[1])

\* CLValue::from_components
types_from_components(cl_type_, bytes) == TCLValueV(cl_type_, bytes)

(***************************************************************************)
(* Encodings near u32::MAX bytes.  A value this long is kept by its        *)
(* lengths, and its encoding by its length and its first bytes.  usize is  *)
(* the 64-bit one of the host; every length here is far below 2^47.        *)
(***************************************************************************)
Limb == 256 * 256

\* a usize / u64 / u32, hi * 2^16 + lo
USize(hi, lo) == [hi |-> hi, lo |-> lo]

usize(n) == USize(n \div Limb, n % Limb)

\* u32::max_value()
u32_max_value == USize(Limb - 1, Limb - 1)

usize_add(x, y) == USize(x.hi + y.hi + ((x.lo + y.lo) \div Limb), (x.lo + y.lo) % Limb)

\* x - y for x >= y
usize_sub(x, y) ==
  IF x.lo >= y.lo THEN USize(x.hi - y.hi, x.lo - y.lo)
  ELSE USize((x.hi - y.hi) - 1, (x.lo + Limb) - y.lo)

\* x >= y
usize_ge(x, y) == x.hi > y.hi \/ (x.hi = y.hi /\ x.lo >= y.lo)

\* x as u32: the low 32 bits
as_u32(x) == USize(x.hi % Limb, x.lo)

\* u32::to_le_bytes
u32_to_le_bytes(x) == <<x.lo % 256, x.lo \div 256, x.hi % 256, x.hi \div 256>>

\* iter().sum::<usize>()
RECURSIVE usize_sum(_)
usize_sum(xs) == IF xs = <<>> THEN usize(0) ELSE usize_add(Head(xs), usize_sum(Tail(xs)))

\* vec![b; len] and its String counterpart: len bytes, each b
Filled(b, len) == Mk("filled", len, <<b>>, <<>>)

\* vec![(); len]
Units(len) == Mk("units", len, <<>>, <<>>)

\* how many leading bytes of an encoding are kept
HeadLen == 2 * U32_SERIALIZED_LENGTH

\* a Vec<u8> of len bytes that starts with head
ByteBuf(len, head) == [len |-> len, head |-> head]

\* the vector holding exactly bs
Exact(bs) == ByteBuf(usize(Len(bs)), SubSeq(bs, 1, IF Len(bs) < HeadLen THEN Len(bs) ELSE HeadLen))

\* the len bytes of a filled value
FilledBytes(v) ==
  ByteBuf(v.n, [i \in 1..(IF usize_ge(v.n, usize(HeadLen)) THEN HeadLen ELSE v.n.lo) |-> v.s[1]])

\* Vec::append / extend
append(result, other) ==
  ByteBuf(usize_add(result.len, other.len), Exact(result.head \o other.head).head)

\* ToBytes::serialized_length, in usize arithmetic
RECURSIVE usize_serialized_length(_, _)
usize_serialized_length(t, v) ==
  LET elems == usize_sum([i \in 1..Len(v.a) |-> usize_serialized_length(ElemType(t, i), v.a[i])])
  IN CASE t.k = "u8" -> usize(U8_SERIALIZED_LENGTH)
       [] t.k = "()" -> usize(0)
       [] t.k = "Vec" ->
            usize_add(usize(U32_SERIALIZED_LENGTH), IF v.k = "filled" THEN v.n ELSE elems)
       [] t.k = "String" -> usize_add(usize(U32_SERIALIZED_LENGTH), v.n)
       [] t.k = "Option" ->
            usize_add(usize(U8_SERIALIZED_LENGTH), IF v.k = "some" THEN elems ELSE usize(0))
       [] t.k \in {"BTreeMap", "Array"} -> usize_add(usize(U32_SERIALIZED_LENGTH), elems)
       [] t.k = "Result" ->
            usize_add(usize(U8_SERIALIZED_LENGTH),
                      usize_serialized_length(IF v.k = "ok" THEN t.a[1] ELSE t.a[2], v.a[1]))
       [] t.k \in {"Tuple1", "Tuple2", "Tuple3"} -> elems

\* Flatten::size_hint().0 before the first next(): no inner iterator is open
size_hint == usize(0)

RECURSIVE into_bytes(_, _)
RECURSIVE append_items(_, _, _, _)
\* result.append(&mut item.into_bytes()?) for the children i.. of v; the
\* first error ends the loop
append_items(t, v, i, result) ==
  IF i > Len(v.a) THEN Ok(result, <<>>)
  ELSE LET push(item) ==
             IF ~item.ok THEN item ELSE append_items(t, v, i + 1, append(result, item.v))
       IN  push(into_bytes(ElemType(t, i), v.a[i]))

\* ToBytes::to_bytes / into_bytes with the size checks each impl makes
into_bytes(t, v) ==
  CASE t.k = "u8" -> Ok(Exact(<<v.n>>), <<>>)
    [] t.k = "()" -> Ok(Exact(<<>>), <<>>)
    [] t.k = "Vec" ->
         IF usize_ge(usize_serialized_length(t, v), u32_max_value) THEN Err("OutOfMemoryError")
         ELSE IF v.k = "filled" THEN
           Ok(append(Exact(u32_to_le_bytes(as_u32(v.n))), FilledBytes(v)), <<>>)
         ELSE IF v.k = "units" THEN Ok(Exact(u32_to_le_bytes(as_u32(v.n))), <<>>)
         ELSE append_items(t, v, 1, Exact(u32_to_le_bytes(as_u32(usize(Len(v.a))))))
    [] t.k = "String" ->
         IF usize_ge(v.n, usize_sub(u32_max_value, usize(U32_SERIALIZED_LENGTH)))
         THEN Err("OutOfMemoryError")
         ELSE into_bytes(TVec(TU8), v)
    [] t.k = "Option" ->
         LET tagged(value) ==
               IF ~value.ok THEN value
               ELSE IF usize_ge(value.v.len, usize_sub(u32_max_value, usize(U8_SERIALIZED_LENGTH)))
               THEN Err("OutOfMemoryError")
               ELSE Ok(append(Exact(<<1>>), value.v), <<>>)
         IN  IF v.k = "some" THEN tagged(into_bytes(t.a[1], v.a[1])) ELSE Ok(Exact(<<0>>), <<>>)
    [] t.k = "BTreeMap" ->
         LET extend(bytes) ==
               IF ~bytes.ok THEN bytes
               ELSE IF usize_ge(size_hint, usize_sub(u32_max_value, usize(U32_SERIALIZED_LENGTH)))
               THEN Err("OutOfMemoryError")
               ELSE Ok(append(Exact(u32_to_le_bytes(as_u32(usize(Len(v.a) \div 2)))), bytes.v), <<>>)
         IN  extend(append_items(t, v, 1, Exact(<<>>)))
    [] t.k = "Result" ->
         LET tagged(value) ==
               IF ~value.ok THEN value ELSE Ok(append(Exact(<<result_tag(v)>>), value.v), <<>>)
         IN  tagged(into_bytes(IF v.k = "ok" THEN t.a[1] ELSE t.a[2], v.a[1]))
    [] t.k \in {"Tuple1", "Tuple2", "Tuple3"} -> append_items(t, v, 1, Exact(<<>>))
    [] t.k = "Array" ->
         IF usize_ge(usize(t.n * size_of(t.a[1])), u32_max_value) THEN Err("OutOfMemoryError")
         ELSE append_items(t, v, 1, Exact(u32_to_le_bytes(usize(t.n))))

\* the calls T::serialize makes on a serde Serializer, a length given as usize
RECURSIVE serialize_calls(_, _)
serialize_calls(t, v) ==
  LET elems == Concat([i \in 1..Len(v.a) |-> serialize_calls(ElemType(t, i), v.a[i])])
  IN CASE t.k = "u8" -> <<Ev("serialize_int", usize(1), <<v.n>>)>>
       [] t.k = "()" -> <<>>
       [] t.k = "String" -> <<Ev("serialize_str", v.n, v.s)>>
       [] t.k = "Vec" ->
            <<Ev("serialize_seq", IF v.k = "units" THEN v.n ELSE usize(Len(v.a)), <<>>)>> \o elems
       [] t.k = "BTreeMap" -> <<Ev("serialize_map", usize(Len(v.a) \div 2), <<>>)>> \o elems
       [] t.k = "Option" ->
            IF v.k = "some" THEN <<Ev("serialize_some", usize(0), <<>>)>> \o elems
            ELSE <<Ev("serialize_none", usize(0), <<>>)>>
       [] t.k = "Result" ->
            <<Ev("serialize_variant", usize(result_index(v)), <<>>)>>
              \o serialize_calls(IF v.k = "ok" THEN t.a[1] ELSE t.a[2], v.a[1])
       [] t.k \in {"Array", "Tuple1", "Tuple2", "Tuple3"} -> elems

\* SizeChecker::new with the limit at its real value
SizeCheckerNew == [limit |-> u32_max_value, total |-> usize(0), ok |-> TRUE]

\* SizeChecker::add_raw(size: u64)
add_raw_u64(sc, size) ==
  IF ~sc.ok THEN sc
  ELSE IF usize_ge(sc.limit, size) THEN
    [limit |-> usize_sub(sc.limit, as_u32(size)), total |-> usize_add(sc.total, as_u32(size)),
     ok |-> TRUE]
  ELSE [sc EXCEPT !.ok = FALSE]

\* impl serde::Serializer for &mut SizeChecker, add_length, add_discriminant
RECURSIVE size_check_calls(_, _)
size_check_calls(sc, evs) ==
  IF evs = <<>> THEN sc
  ELSE LET ev == Head(evs)
       IN  size_check_calls(
             CASE ev.op \in {"serialize_variant", "serialize_none", "serialize_some"} ->
                    add_raw_u64(sc, usize(1))
               [] ev.op = "serialize_int" -> add_raw_u64(sc, ev.n)
               [] ev.op = "serialize_str" ->
                    add_raw_u64(add_raw_u64(sc, usize(U32_SERIALIZED_LENGTH)), ev.n)
               [] ev.op \in {"serialize_seq", "serialize_map"} ->
                    add_raw_u64(sc, usize(U32_SERIALIZED_LENGTH)),
             Tail(evs))

\* impl serde::Serializer for &mut Serializer: serialize_length writes
\* length as u32
RECURSIVE serializer_output(_, _)
serializer_output(output, evs) ==
  IF evs = <<>> THEN output
  ELSE LET ev == Head(evs)
       IN  serializer_output(
             append(output,
               CASE ev.op = "serialize_variant" -> Exact(<<ev.n.lo>>)
                 [] ev.op = "serialize_int" -> Exact(ev.s)
                 [] ev.op = "serialize_str" ->
                      append(Exact(u32_to_le_bytes(as_u32(ev.n))), FilledBytes(Filled(ev.s[1], ev.n)))
                 [] ev.op = "serialize_none" -> Exact(<<0>>)
                 [] ev.op = "serialize_some" -> Exact(<<1>>)
                 [] ev.op \in {"serialize_seq", "serialize_map"} ->
                      Exact(u32_to_le_bytes(as_u32(ev.n)))),
             Tail(evs))

\* encoding::serialize: serialized_length(value)? first, then the Serializer
checked_serialize(t, v) ==
  IF ~size_check_calls(SizeCheckerNew, serialize_calls(t, v)).ok THEN Err("SizeLimit")
  ELSE Ok(serializer_output(Exact(<<>>), serialize_calls(t, v)), <<>>)

(***************************************************************************)
(* The values, types and byte strings the state machine draws from         *)
(***************************************************************************)
\* the longest generated byte vector and string
MaxLen == 2

\* the longest generated hostile input
MaxRawLen == 2

\* the allocator either grants any reservation or at most this many elements
MaxAlloc == 1024

SeqsUpTo(S, n) == UNION {[1..k -> S] : k \in 0..n}

Addr(b) == [i \in 1..UREF_ADDR_LENGTH |-> b]

ByteVecs == SeqsUpTo({0, 255}, MaxLen)

\* well-formed strings over 'a' and the two bytes of U+00E9
Strings == {bs \in SeqsUpTo({97, 195, 169}, MaxLen) : from_utf8(bs)}

READ == 1

READ_ADD_WRITE == 7

\* contract-ffi URefs: with rights, and with the rights removed
URefs == {URefV(Addr(1), Some(IntV(READ))), URefV(Addr(2), None),
          URefV(Addr(3), Some(IntV(READ_ADD_WRITE)))}

\* BTreeMap<String, URef> built by insert, as the host builds it
URefMaps ==
  {MapV(<<>>)} \cup
  {MapV(btree_insert(<<>>, StrV(k), u)) : k \in Strings \ {<<>>}, u \in URefs} \cup
  {MapV(btree_insert(btree_insert(<<>>, StrV(<<195, 169>>), u1), StrV(<<97>>), u2)) :
     u1 \in URefs, u2 \in URefs}

CLTypes ==
  {CLBool, CLU8, CLString, CLURef, CLAny, CLOption(CLU8), CLList(CLString),
   CLFixedList(CLU8, 32), CLFixedList(CLList(CLU32), 300), CLResult(CLU8, CLString),
   CLMap(CLString, CLURef), CLTuple1(CLI64), CLTuple2(CLU8, CLTuple1(CLKey)),
   CLTuple3(CLBool, CLOption(CLU512), CLUnit)}

EmptyPointerBlock == SeqV([i \in 1..RADIX |-> None])

OnePointerBlock ==
  SeqV([i \in 1..RADIX |-> IF i = 2 THEN Some(PointerV(1, Addr(9))) ELSE None])

TLeafTrie == TTrie(TU8, TString)

Tries ==
  {LeafV(IntV(7), StrV(<<97>>)), ExtensionV(SeqV(U8sOf(<<1, 2>>)), PointerV(0, Addr(5))),
   NodeV(EmptyPointerBlock), NodeV(OnePointerBlock)}

\* a 64-bit number above the 32-bit range
Wide64 == Wide(<<0, 0, 0, 0, 1, 0, 0, 0>>)

FfiSamples ==
  {<<TBool, BoolV(b)>> : b \in BOOLEAN} \cup
  {<<TU8, IntV(n)>> : n \in {0, 255}} \cup
  {<<TI32, IntV(n)>> : n \in {-1, 65536}} \cup
  {<<TU32, v>> : v \in {IntV(1), Wide(<<255, 255, 255, 255>>)}} \cup
  {<<TI64, IntV(-2)>>, <<TU64, Wide64>>, <<TUnit, Unit>>} \cup
  {<<TString, StrV(bs)>> : bs \in Strings} \cup
  {<<TVec(TU8), SeqV(U8sOf(bs))>> : bs \in ByteVecs} \cup
  {<<TVec(TString), SeqV(<<StrV(x), StrV(<<97>>)>>)>> : x \in Strings} \cup
  {<<TVec(TURef), SeqV(<<u1, u2>>)>> : u1 \in URefs, u2 \in URefs} \cup
  {<<TArray(TU8, 2), SeqV(U8sOf(bs))>> : bs \in [1..2 -> {0, 255}]} \cup
  {<<TArray(TU32, 2), SeqV(<<IntV(1), IntV(258)>>)>>} \cup
  {<<TOption(TU8), v>> : v \in {None, Some(IntV(5))}} \cup
  {<<TOption(TURef), Some(u)>> : u \in URefs} \cup
  {<<TResult(TU8, TString), v>> : v \in {OkV(IntV(1)), ErrV(StrV(<<97>>))}} \cup
  {<<TMap(TString, TURef), m>> : m \in URefMaps} \cup
  {<<TMap(TU8, TU8), MapV(btree_insert(btree_insert(<<>>, IntV(9), IntV(1)), IntV(3), IntV(2)))>>} \cup
  {<<TTuple1(TU8), SeqV(<<IntV(1)>>)>>,
   <<TTuple2(TString, TURef), SeqV(<<StrV(<<97>>), URefV(Addr(2), None)>>)>>,
   <<TTuple3(TBool, TUnit, TURef), SeqV(<<BoolV(TRUE), Unit, URefV(Addr(1), Some(IntV(READ)))>>)>>} \cup
  {<<TURef, u>> : u \in URefs} \cup
  {<<TCLType, c>> : c \in CLTypes} \cup
  {<<TCLValue, from_t(TMap(TString, TURef), m)>> : m \in URefMaps} \cup
  {<<TCLValue, from_t(TU8, IntV(5))>>} \cup
  {<<TLeafTrie, v>> : v \in Tries}

\* types URefs: the rights are a flag set, NONE is 0
TURefs == {TURefV(Addr(1), READ), TURefV(Addr(2), 0)}

Keys ==
  {KeyV(0, <<PublicKeyV(Addr(4))>>), KeyV(1, <<BytesV(Addr(5))>>),
   KeyV(3, <<BytesV(Addr(6)), BytesV(Addr(7))>>)} \cup {KeyV(2, <<u>>) : u \in TURefs}

\* characters of one to four bytes: 'a', U+00E9, U+20AC, U+1F600
Chars == {CharV(97), CharV(233), CharV(8364), CharV(128512)}

TypesSamples ==
  {<<TBool, BoolV(b)>> : b \in BOOLEAN} \cup
  {<<TU8, IntV(n)>> : n \in {0, 255}} \cup
  {<<TI8, IntV(-1)>>, <<TU16, IntV(258)>>, <<TI16, IntV(-2)>>, <<TI32, IntV(-1)>>,
   <<TU32, Wide(<<255, 255, 255, 255>>)>>, <<TI64, IntV(-2)>>, <<TU64, Wide64>>, <<TUnit, Unit>>} \cup
  {<<TString, StrV(bs)>> : bs \in Strings} \cup
  {<<TChar, c>> : c \in Chars} \cup
  {<<TVec(TU8), SeqV(U8sOf(bs))>> : bs \in ByteVecs} \cup
  {<<TVec(TString), SeqV(<<StrV(x), StrV(<<97>>)>>)>> : x \in Strings} \cup
  {<<TVec(TKey), SeqV(<<k>>)>> : k \in Keys} \cup
  {<<TArray(TU8, 2), SeqV(U8sOf(bs))>> : bs \in [1..2 -> {0, 255}]} \cup
  {<<TArray(TU8, 32), SeqV(U8sOf(Addr(4)))>>} \cup
  {<<TOption(TU8), v>> : v \in {None, Some(IntV(5))}} \cup
  {<<TResult(TU8, TString), v>> : v \in {OkV(IntV(1)), ErrV(StrV(<<97>>))}} \cup
  {<<TMap(TString, TURef), MapV(btree_insert(btree_insert(<<>>, StrV(<<195, 169>>), u1), StrV(<<97>>), u2))>> :
     u1 \in TURefs, u2 \in TURefs} \cup
  {<<TTuple1(TU8), SeqV(<<IntV(1)>>)>>,
   <<TTuple2(TString, TURef), SeqV(<<StrV(<<97>>), TURefV(Addr(2), 0)>>)>>,
   <<TTuple3(TBool, TUnit, TKey), SeqV(<<BoolV(TRUE), Unit, KeyV(1, <<BytesV(Addr(5))>>)>>)>>} \cup
  {<<TURef, u>> : u \in TURefs} \cup
  {<<TKey, k>> : k \in Keys} \cup
  {<<TPublicKey, PublicKeyV(Addr(4))>>} \cup
  {<<TCLType, c>> : c \in CLTypes} \cup
  {<<TCLValue, types_from_t(TString, StrV(bs))>> : bs \in Strings} \cup
  {<<TCLValue, types_from_t(TKey, k)>> : k \in Keys}

\* bytes a hostile sender picks from: small numbers, 0xFF, the two bytes of
\* U+00E9
RawBytes == {0, 1, 195, 169, 255}

\* encodings whose length prefix exceeds what follows (key.rs abuse_vec_key)
OverlongInputs ==
  {<<255, 255, 255, 255, 0, 1, 2, 3, 4, 5, 6, 7, 8, 9>>, <<3, 0, 0, 0, 97>>,
   <<0, 0, 0, 128, 1>>}

\* a serialized ffi CLValue of type URef whose offsets list is empty, one
\* whose payload is not a bool, and a types CLValue whose payload is not a bool
HostileCLValues ==
  {to_bytes(TCLValue, CLValueV(CLURef, to_bytes(TURef, URefV(Addr(1), Some(IntV(READ)))), <<>>)),
   to_bytes(TCLValue, CLValueV(CLBool, <<7>>, <<>>)),
   <<1, 0, 0, 0, 7, CL_TYPE_TAG_BOOL>>}

\* serialized CLTypes with a tag byte past the table: alone, under Option, as
\* the value type of a Map, and two levels down inside a FixedList
HostileCLTypes ==
  {<<22>>, <<CL_TYPE_TAG_OPTION, 22>>, <<CL_TYPE_TAG_MAP, CL_TYPE_TAG_STRING, 200>>,
   <<CL_TYPE_TAG_FIXED_LIST, CL_TYPE_TAG_LIST, 99, 2, 0, 0, 0>>}

RawInputs ==
  SeqsUpTo(RawBytes, MaxRawLen) \cup OverlongInputs \cup HostileCLValues \cup HostileCLTypes

\* the byte appended to a complete encoding
ExtraBytes == {0, 255}

\* the (cl_type, bytes, uref_offsets) handed to from_components
Components ==
  {<<CLBool, <<1>>, <<>>>>, <<CLBool, <<7>>, <<>>>>,
   <<CLURef, to_bytes(TURef, URefV(Addr(1), None)), <<>>>>,
   <<CLURef, to_bytes(TURef, URefV(Addr(1), None)), <<IntV(0)>>>>,
   <<CLString, <<1, 0, 0, 0, 97>>, <<IntV(9)>>>>}

\* the types U of into_t::<U>
FfiTargets ==
  {TBool, TU8, TU32, TString, TVec(TU8), TURef, TOption(TU8), TMap(TString, TURef),
   TResult(TU8, TString)}

TypesTargets ==
  {TBool, TU8, TU32, TString, TVec(TU8), TURef, TKey, TPublicKey, TArray(TU8, 32), TOption(TU8)}

\* the types with a CLTyped impl
RECURSIVE IsCLTyped(_)
IsCLTyped(t) ==
  /\ t.k \in {"bool", "i32", "i64", "u8", "u32", "u64", "()", "String", "Key", "URef",
              "PublicKey", "Option", "Vec", "Array", "Result", "BTreeMap", "Tuple1", "Tuple2",
              "Tuple3"}
  /\ \A i \in 1..Len(t.a) : IsCLTyped(t.a[i])

NoBuf == [kind |-> "none", t |-> TUnit, v |-> Unit, bytes |-> <<>>]

NoRes == [op |-> "none", r |-> NoResult]

NoCLV == [src |-> "none", v |-> Unit]

NoOut == [op |-> "none", u |-> TUnit, r |-> NoResult]

\* no [T; N] decode is under way
NoDecoder ==
  [pc |-> "idle", i |-> 0, j |-> 0, bytes |-> <<>>, slots |-> <<>>, live |-> 0, before |-> 0,
   error |-> NoResult]

\* the host has made no buffer and holds no CLValue yet
Idle == buf.kind = "none" /\ clv.src = "none"

(***************************************************************************)
(* The state machine: a host that encodes, receives and decodes            *)
(***************************************************************************)
Init ==
  /\ mem \in {MaxAlloc, U32Sat}
  /\ crate \in {"ffi", "types"}
  /\ \E sample \in IF crate = "ffi" THEN FfiSamples ELSE TypesSamples :
       ty = sample[1] /\ val = sample[2]
  /\ buf = NoBuf
  /\ res = NoRes
  /\ clv = NoCLV
  /\ out = NoOut
  /\ decoder = NoDecoder

\* v.to_bytes()
ToBytes ==
  /\ crate = "ffi"
  /\ Idle
  /\ buf' = [kind |-> "exact", t |-> ty, v |-> val, bytes |-> to_bytes(ty, val)]
  /\ res' = NoRes /\ clv' = NoCLV /\ out' = NoOut
  /\ UNCHANGED <<mem, crate, ty, val, decoder>>

\* encoding::serialize(&v)
Serialize ==
  /\ crate = "types"
  /\ Idle
  /\ encoding_serialize(ty, val).ok
  /\ buf' = [kind |-> "exact", t |-> ty, v |-> val, bytes |-> encoding_serialize(ty, val).v.s]
  /\ res' = NoRes /\ clv' = NoCLV /\ out' = NoOut
  /\ UNCHANGED <<mem, crate, ty, val, decoder>>

\* the last byte of a complete encoding is lost
Truncate ==
  /\ buf.kind = "exact"
  /\ buf.bytes # <<>>
  /\ buf' = [buf EXCEPT !.kind = "truncated", !.bytes = Take(buf.bytes, Len(buf.bytes) - 1)]
  /\ res' = NoRes
  /\ UNCHANGED <<mem, crate, ty, val, clv, out, decoder>>

\* one byte is appended to a complete encoding
Extend(b) ==
  /\ buf.kind = "exact"
  /\ buf' = [buf EXCEPT !.kind = "extended", !.bytes = buf.bytes \o <<b>>]
  /\ res' = NoRes
  /\ UNCHANGED <<mem, crate, ty, val, clv, out, decoder>>

\* bytes arrive from a contract or the network, to be decoded as T
Receive(bytes) ==
  /\ Idle
  /\ buf' = [kind |-> "raw", t |-> ty, v |-> Unit, bytes |-> bytes]
  /\ res' = NoRes /\ clv' = NoCLV /\ out' = NoOut
  /\ UNCHANGED <<mem, crate, ty, val, decoder>>

\* T::from_bytes(&buf)
FromBytes ==
  /\ crate = "ffi"
  /\ out.op = "none"
  /\ buf.kind # "none"
  /\ res' = [op |-> "from_bytes", r |-> from_bytes(buf.t, buf.bytes)]
  /\ UNCHANGED <<mem, crate, ty, val, buf, clv, out, decoder>>

\* bytesrepr::deserialize::<T>(buf)
Deserialize ==
  /\ crate = "ffi"
  /\ out.op = "none"
  /\ buf.kind # "none"
  /\ res' = [op |-> "deserialize", r |-> bytesrepr_deserialize(buf.t, buf.bytes)]
  /\ UNCHANGED <<mem, crate, ty, val, buf, clv, out, decoder>>

\* encoding::deserialize::<T>(&buf)
EncodingDeserialize ==
  /\ crate = "types"
  /\ out.op = "none"
  /\ buf.kind # "none"
  /\ res' = [op |-> "deserialize", r |-> encoding_deserialize(buf.t, buf.bytes)]
  /\ UNCHANGED <<mem, crate, ty, val, buf, clv, out, decoder>>

\* v.serialized_length(), next to the encoding it predicts
SerializedLength ==
  /\ crate = "ffi"
  /\ out.op = "none"
  /\ buf.kind = "exact"
  /\ res' = [op |-> "serialized_length", r |-> OkT(IntV(serialized_length(buf.t, buf.v)))]
  /\ UNCHANGED <<mem, crate, ty, val, buf, clv, out, decoder>>

\* encoding::serialized_length(&v), next to the encoding it predicts
EncodingSerializedLength ==
  /\ crate = "types"
  /\ out.op = "none"
  /\ buf.kind = "exact"
  /\ res' = [op |-> "serialized_length", r |-> encoding_serialized_length(buf.t, buf.v)]
  /\ UNCHANGED <<mem, crate, ty, val, buf, clv, out, decoder>>

\* CLValue::from_t(v) (contract-ffi)
FromT ==
  /\ crate = "ffi"
  /\ Idle
  /\ IsCLTyped(ty)
  /\ clv' = [src |-> "from_t", v |-> from_t(ty, val)]
  /\ buf' = NoBuf /\ res' = NoRes /\ out' = NoOut
  /\ UNCHANGED <<mem, crate, ty, val, decoder>>

\* CLValue::from_t(v) (types)
TypesFromT ==
  /\ crate = "types"
  /\ Idle
  /\ IsCLTyped(ty)
  /\ encoding_serialize(ty, val).ok
  /\ clv' = [src |-> "from_t", v |-> types_from_t(ty, val)]
  /\ buf' = NoBuf /\ res' = NoRes /\ out' = NoOut
  /\ UNCHANGED <<mem, crate, ty, val, decoder>>

\* CLValue::from_components(cl_type, bytes, uref_offsets) (contract-ffi)
FromComponents(c) ==
  /\ crate = "ffi"
  /\ Idle
  /\ clv' = [src |-> "from_components", v |-> from_components(c[1], c[2], c[3])]
  /\ buf' = NoBuf /\ res' = NoRes /\ out' = NoOut
  /\ UNCHANGED <<mem, crate, ty, val, decoder>>

\* CLValue::from_components(cl_type, bytes) (types)
TypesFromComponents(c) ==
  /\ crate = "types"
  /\ Idle
  /\ clv' = [src |-> "from_components", v |-> types_from_components(c[1], c[2])]
  /\ buf' = NoBuf /\ res' = NoRes /\ out' = NoOut
  /\ UNCHANGED <<mem, crate, ty, val, decoder>>

\* the held CLValue is serialized: cl_value.to_bytes() / encoding::serialize
CLValueToBytes ==
  /\ clv.src # "none"
  /\ buf.kind = "none"
  /\ buf' = [kind |-> "exact", t |-> TCLValue, v |-> clv.v,
             bytes |-> IF crate = "ffi" THEN to_bytes(TCLValue, clv.v)
                       ELSE encoding_serialize(TCLValue, clv.v).v.s]
  /\ res' = NoRes /\ out' = NoOut
  /\ UNCHANGED <<mem, crate, ty, val, clv, decoder>>

\* the host decodes a CLValue from the buffer and keeps it:
\* CLValue::from_bytes / encoding::deserialize::<CLValue>
CLValueFromBytes ==
  /\ buf.kind # "none"
  /\ buf.t = TCLValue
  /\ \E r \in {IF crate = "ffi" THEN from_bytes(TCLValue, buf.bytes)
                 ELSE encoding_deserialize(TCLValue, buf.bytes)} :
       /\ r.ok
       /\ clv' = [src |-> "from_bytes", v |-> r.v]
  /\ out' = NoOut
  /\ UNCHANGED <<mem, crate, ty, val, buf, res, decoder>>

\* cl_value.into_t::<U>() (contract-ffi)
IntoT(u) ==
  /\ crate = "ffi"
  /\ res.op = "none"
  /\ clv.src # "none"
  /\ out' = [op |-> "into_t", u |-> u, r |-> into_t(clv.v, u)]
  /\ UNCHANGED <<mem, crate, ty, val, buf, res, clv, decoder>>

\* cl_value.into_t::<U>() (types)
TypesIntoT(u) ==
  /\ crate = "types"
  /\ res.op = "none"
  /\ clv.src # "none"
  /\ out' = [op |-> "into_t", u |-> u, r |-> types_into_t(clv.v, u)]
  /\ UNCHANGED <<mem, crate, ty, val, buf, res, clv, decoder>>

\* cl_value.contained_urefs() (contract-ffi)
ContainedUrefs ==
  /\ crate = "ffi"
  /\ res.op = "none"
  /\ clv.src # "none"
  /\ out' = [op |-> "contained_urefs", u |-> TURef, r |-> contained_urefs(clv.v)]
  /\ UNCHANGED <<mem, crate, ty, val, buf, res, clv, decoder>>

Next ==
  \/ ToBytes
  \/ Serialize
  \/ Truncate
  \/ \E b \in ExtraBytes : Extend(b)
  \/ \E bytes \in RawInputs : Receive(bytes)
  \/ FromBytes
  \/ Deserialize
  \/ EncodingDeserialize
  \/ SerializedLength
  \/ EncodingSerializedLength
  \/ FromT
  \/ TypesFromT
  \/ \E c \in Components : FromComponents(c)
  \/ \E c \in Components : TypesFromComponents(c)
  \/ CLValueToBytes
  \/ CLValueFromBytes
  \/ \E u \in FfiTargets \cup (IF IsCLTyped(ty) THEN {ty} ELSE {}) : IntoT(u)
  \/ \E u \in TypesTargets \cup (IF IsCLTyped(ty) THEN {ty} ELSE {}) : TypesIntoT(u)
  \/ ContainedUrefs

Spec == Init /\ [][Next]_vars

(***************************************************************************)
(* The host encodes one value whose encoding is near u32::MAX bytes        *)
(***************************************************************************)
\* lengths from u32::MAX - MaxBelow to u32::MAX are drawn
MaxBelow == 6

\* 0, 1, 2^31, the lengths just below u32::MAX, u32::MAX and 2^32
Lengths ==
  {usize(0), usize(1), USize(Limb \div 2, 0), USize(Limb, 0)} \cup
  {usize_sub(u32_max_value, usize(d)) : d \in 0..MaxBelow}

HalfVec == Filled(0, USize(Limb \div 2, 0))

LongFfiSamples ==
  {<<TVec(TU8), Filled(0, n)>> : n \in Lengths} \cup
  {<<TString, Filled(97, n)>> : n \in Lengths} \cup
  {<<TVec(TUnit), Units(n)>> : n \in Lengths} \cup
  {<<TOption(TVec(TU8)), Some(Filled(0, n))>> : n \in Lengths} \cup
  {<<TOption(TVec(TU8)), None>>, <<TResult(TVec(TU8), TU8), ErrV(IntV(7))>>} \cup
  {<<TResult(TVec(TU8), TU8), OkV(Filled(0, n))>> : n \in Lengths} \cup
  {<<TTuple1(TString), SeqV(<<Filled(97, n)>>)>> : n \in Lengths} \cup
  {<<TTuple2(TVec(TU8), TVec(TU8)), SeqV(<<HalfVec, Filled(0, n)>>)>> : n \in Lengths} \cup
  {<<TTuple3(TU8, TVec(TU8), TUnit), SeqV(<<IntV(1), Filled(0, n), Unit>>)>> : n \in Lengths} \cup
  {<<TArray(TVec(TU8), 2), SeqV(<<HalfVec, Filled(0, n)>>)>> : n \in Lengths} \cup
  {<<TVec(TString), SeqV(<<Filled(97, n), Filled(97, usize(1))>>)>> : n \in Lengths} \cup
  {<<TMap(TU8, TVec(TU8)), MapV(<<IntV(1), Filled(0, n)>>)>> : n \in Lengths}

LongTypesSamples ==
  {<<TString, Filled(97, n)>> : n \in Lengths} \cup
  {<<TVec(TUnit), Units(n)>> : n \in Lengths} \cup
  {<<TOption(TString), Some(Filled(97, n))>> : n \in Lengths} \cup
  {<<TOption(TString), None>>, <<TResult(TString, TU8), ErrV(IntV(7))>>} \cup
  {<<TResult(TString, TU8), OkV(Filled(97, n))>> : n \in Lengths} \cup
  {<<TTuple2(TString, TString), SeqV(<<Filled(97, USize(Limb \div 2, 0)), Filled(97, n)>>)>> :
     n \in Lengths} \cup
  {<<TVec(TString), SeqV(<<Filled(97, n), Filled(97, usize(1))>>)>> : n \in Lengths} \cup
  {<<TMap(TU8, TString), MapV(<<IntV(1), Filled(97, n)>>)>> : n \in Lengths}

LongInit ==
  /\ mem = U32Sat
  /\ crate \in {"ffi", "types"}
  /\ \E sample \in IF crate = "ffi" THEN LongFfiSamples ELSE LongTypesSamples :
       ty = sample[1] /\ val = sample[2]
  /\ buf = NoBuf
  /\ res = NoRes
  /\ clv = NoCLV
  /\ out = NoOut
  /\ decoder = NoDecoder

\* v.into_bytes()
IntoBytes ==
  /\ crate = "ffi"
  /\ res.op = "none"
  /\ res' = [op |-> "into_bytes", r |-> into_bytes(ty, val)]
  /\ UNCHANGED <<mem, crate, ty, val, buf, clv, out, decoder>>

\* encoding::serialize(&v)
CheckedSerialize ==
  /\ crate = "types"
  /\ res.op = "none"
  /\ res' = [op |-> "serialize", r |-> checked_serialize(ty, val)]
  /\ UNCHANGED <<mem, crate, ty, val, buf, clv, out, decoder>>

LongNext == IntoBytes \/ CheckedSerialize

LongSpec == LongInit /\ [][LongNext]_vars

(***************************************************************************)
(* The host builds a map entry by entry, in any order, and encodes it      *)
(***************************************************************************)
MapTypes == {TMap(TU8, TString), TMap(TString, TU8)}

\* the keys and the values inserted into a map of type t
MapKeys(t) ==
  IF t.a[1] = TU8 THEN {IntV(3), IntV(9), IntV(200)}
  ELSE {StrV(<<97>>), StrV(<<97, 97>>), StrV(<<195, 169>>), StrV(<<>>)}

MapVals(t) == IF t.a[2] = TU8 THEN {IntV(1), IntV(2)} ELSE {StrV(<<>>), StrV(<<97>>)}

\* BTreeMap::new()
MapInit ==
  /\ mem = U32Sat
  /\ crate \in {"ffi", "types"}
  /\ ty \in MapTypes
  /\ val = MapV(<<>>)
  /\ buf = NoBuf
  /\ res = NoRes
  /\ clv = NoCLV
  /\ out = NoOut
  /\ decoder = NoDecoder

\* map.insert(k, v)
Insert(k, v) ==
  /\ Idle
  /\ val' = MapV(btree_insert(val.a, k, v))
  /\ UNCHANGED <<mem, crate, ty, buf, res, clv, out, decoder>>

MapNext ==
  \/ \E k \in MapKeys(ty), v \in MapVals(ty) : Insert(k, v)
  \/ ToBytes
  \/ Serialize

MapSpec == MapInit /\ [][MapNext]_vars

(***************************************************************************)
(* <[T; N]>::from_bytes step by step: the slots of the MaybeUninit array,  *)
(* the instances of T alive, and what is dropped when an element fails     *)
(***************************************************************************)
\* arrays of up to MaxN elements are decoded
MaxN == 3

\* element types whose values own something to release
ElementTypes == {TString, TOption(TU8)}

ArrayTypes == {TArray(t, n) : t \in ElementTypes, n \in 0..MaxN}

\* what a sender puts in the place of one element: two well-formed
\* encodings and one on which T::from_bytes fails
ElementInputs(t) ==
  IF t = TString THEN {<<0, 0, 0, 0>>, <<1, 0, 0, 0, 97>>, <<1, 0, 0, 0, 255>>}
  ELSE {<<0>>, <<1, 5>>, <<7>>}

\* the prefix N followed by up to N element inputs (fewer than N: the input
\* ends early), and one input whose prefix is not N
ArrayInputs(t) ==
  {to_le_bytes(t.n, 4) \o Concat(es) : es \in SeqsUpTo(ElementInputs(t.a[1]), t.n)} \cup
  {to_le_bytes(t.n + 1, 4)}

\* a slot of the MaybeUninit<[T; N]>
Uninit == [init |-> FALSE, v |-> Unit, drops |-> 0]

\* the caller holds `before` instances of T and hands over the bytes
ArrayInit ==
  /\ mem = U32Sat
  /\ crate = "ffi"
  /\ ty \in ArrayTypes
  /\ val = Unit
  /\ \E bytes \in ArrayInputs(ty) : buf = [kind |-> "raw", t |-> ty, v |-> Unit, bytes |-> bytes]
  /\ res = NoRes
  /\ clv = NoCLV
  /\ out = NoOut
  /\ \E before \in {0, 1} : decoder = [NoDecoder EXCEPT !.live = before, !.before = before]

\* a loop that releases nothing
DropRange_none(i) == {}

\* for j in 0..i
DropRange(i) == 0..(i - 1)

\* let (size, remainder) = u32::from_bytes(bytes)?; the size must be N;
\* MaybeUninit::uninit()
ReadSize ==
  /\ decoder.pc = "idle"
  /\ LET size == u32_from_bytes(buf.bytes)
     IN  IF ~size.ok \/ size.v # IntV(ty.n)
           THEN /\ decoder' = [decoder EXCEPT !.pc = "done"]
                /\ res' = [op |-> "from_bytes",
                           r |-> IF ~size.ok THEN size ELSE Err("FormattingError")]
           ELSE /\ decoder' = [decoder EXCEPT !.pc = "loop", !.bytes = size.rem,
                                               !.slots = [k \in 1..ty.n |-> Uninit]]
                /\ res' = res
  /\ UNCHANGED <<mem, crate, ty, val, buf, clv, out>>

\* T::from_bytes(bytes) for element i: on success the new instance is
\* written to slot i, on failure the loop over the slots before i begins
DecodeElement ==
  /\ decoder.pc = "loop"
  /\ decoder.i < ty.n
  /\ LET r == from_bytes(ty.a[1], decoder.bytes)
     IN  decoder' =
           IF r.ok
             THEN [decoder EXCEPT !.slots[decoder.i + 1] = [init |-> TRUE, v |-> r.v, drops |-> 0],
                                  !.live = decoder.live + 1,
                                  !.bytes = r.rem,
                                  !.i = decoder.i + 1]
             ELSE [decoder EXCEPT !.pc = "drop", !.j = 0, !.error = r]
  /\ UNCHANGED <<mem, crate, ty, val, buf, res, clv, out>>

\* result_ptr.add(j).drop_in_place()
DropInPlace ==
  /\ decoder.pc = "drop"
  /\ decoder.j \in DropRange(decoder.i)
  /\ decoder' = [decoder EXCEPT !.slots[decoder.j + 1].drops = @ + 1,
                                !.live = decoder.live - 1,
                                !.j = decoder.j + 1]
  /\ UNCHANGED <<mem, crate, ty, val, buf, res, clv, out>>

\* return Err(error)
ReturnError ==
  /\ decoder.pc = "drop"
  /\ decoder.j \notin DropRange(decoder.i)
  /\ decoder' = [decoder EXCEPT !.pc = "done"]
  /\ res' = [op |-> "from_bytes", r |-> decoder.error]
  /\ UNCHANGED <<mem, crate, ty, val, buf, clv, out>>

\* Ok((result.assume_init(), bytes))
AssumeInit ==
  /\ decoder.pc = "loop"
  /\ decoder.i = ty.n
  /\ decoder' = [decoder EXCEPT !.pc = "done"]
  /\ res' = [op |-> "from_bytes",
             r |-> Ok(SeqV([k \in 1..ty.n |-> decoder.slots[k].v]), decoder.bytes)]
  /\ UNCHANGED <<mem, crate, ty, val, buf, clv, out>>

ArrayNext == ReadSize \/ DecodeElement \/ DropInPlace \/ ReturnError \/ AssumeInit

ArraySpec == ArrayInit /\ [][ArrayNext]_vars

(***************************************************************************)
(* URef::as_string: the name under which a URef is stored                  *)
(***************************************************************************)
\* the character codes of '0'..'9' and 'a'..'f' / 'A'..'F'
LowerDigit(d) == IF d < 10 THEN 48 + d ELSE 87 + d

UpperDigit(d) == IF d < 10 THEN 48 + d ELSE 55 + d

\* base16::encode_upper
encode_upper(bytes) ==
  [i \in 1..(2 * Len(bytes)) |->
     UpperDigit(IF i % 2 = 1 THEN bytes[(i + 1) \div 2] \div 16 ELSE bytes[i \div 2] % 16)]

\* base16::encode_lower
encode_lower(bytes) ==
  [i \in 1..(2 * Len(bytes)) |->
     LowerDigit(IF i % 2 = 1 THEN bytes[(i + 1) \div 2] \div 16 ELSE bytes[i \div 2] % 16)]

\* the octal digits of a u8, most significant first, without padding
RECURSIVE octal(_)
octal(n) == IF n < 8 THEN <<48 + n>> ELSE octal(n \div 8) \o <<48 + (n % 8)>>

\* format!("{:03o}", bits): padded with '0' to at least three characters
octal_03(bits) == [i \in 1..(3 - Len(octal(bits))) |-> 48] \o octal(bits)

\* "uref-" and "-"
UrefDash == <<117, 114, 101, 102, 45>>

Dash == <<45>>

\* URef::as_string (contract-ffi): no rights count as the bits 0
as_string(u) ==
  LET access_rights_bits == IF u.a[1] = None THEN 0 ELSE u.a[1].a[1].n
  IN  StrV(UrefDash \o encode_lower(u.s) \o Dash \o octal_03(access_rights_bits))

\* URef::as_string (types)
types_as_string(u) == StrV(UrefDash \o encode_lower(u.s) \o Dash \o octal_03(u.n))

\* URef::remove_access_rights (types)
types_remove_access_rights(u) == TURefV(u.s, 0)

\* addresses with every kind of hex digit
Addrs ==
  {Addr(0), Addr(171), Addr(255), [i \in 1..UREF_ADDR_LENGTH |-> (i * 9) % 256],
   [i \in 1..UREF_ADDR_LENGTH |-> IF i = 1 THEN 1 ELSE 0]}

\* the bits AccessRights::from_bits accepts
RightsBits == 0..7

AllURefs ==
  {URefV(a, None) : a \in Addrs} \cup {URefV(a, Some(IntV(b))) : a \in Addrs, b \in RightsBits}

AllTypesURefs == {TURefV(a, b) : a \in Addrs, b \in RightsBits}

\* URef::new / unsafe_new
URefInit ==
  /\ mem = U32Sat
  /\ crate \in {"ffi", "types"}
  /\ ty = TURef
  /\ val \in (IF crate = "ffi" THEN {u \in AllURefs : u.a[1] # None} ELSE AllTypesURefs)
  /\ buf = NoBuf
  /\ res = NoRes
  /\ clv = NoCLV
  /\ out = NoOut
  /\ decoder = NoDecoder

\* uref.remove_access_rights() (contract-ffi)
RemoveAccessRights ==
  /\ crate = "ffi"
  /\ out.op = "none"
  /\ val' = remove_access_rights(val)
  /\ UNCHANGED <<mem, crate, ty, buf, res, clv, out, decoder>>

\* uref.remove_access_rights() (types)
TypesRemoveAccessRights ==
  /\ crate = "types"
  /\ out.op = "none"
  /\ val' = types_remove_access_rights(val)
  /\ UNCHANGED <<mem, crate, ty, buf, res, clv, out, decoder>>

\* uref.as_string() (contract-ffi)
AsString ==
  /\ crate = "ffi"
  /\ out.op = "none"
  /\ out' = [op |-> "as_string", u |-> TString, r |-> OkT(as_string(val))]
  /\ UNCHANGED <<mem, crate, ty, val, buf, res, clv, decoder>>

\* uref.as_string() (types)
TypesAsString ==
  /\ crate = "types"
  /\ out.op = "none"
  /\ out' = [op |-> "as_string", u |-> TString, r |-> OkT(types_as_string(val))]
  /\ UNCHANGED <<mem, crate, ty, val, buf, res, clv, decoder>>

URefNext == RemoveAccessRights \/ TypesRemoveAccessRights \/ AsString \/ TypesAsString

URefSpec == URefInit /\ [][URefNext]_vars

(***************************************************************************)
(* Access rights arrive as any byte, alone or inside a URef                *)
(***************************************************************************)
AllBytes == 0..255

\* one byte as AccessRights; an address followed by the rights in the form
\* of the crate (Some(rights) or None in contract-ffi, the address behind
\* its length and the plain rights byte in types)
RightsInputs(c, t) ==
  IF t = TAccessRights THEN {<<b>> : b \in AllBytes}
  ELSE IF c = "ffi" THEN {Addr(1) \o <<1, b>> : b \in AllBytes} \cup {Addr(1) \o <<0>>}
  ELSE {to_le_bytes(UREF_ADDR_LENGTH, 4) \o Addr(1) \o <<b>> : b \in AllBytes}

RightsInit ==
  /\ mem = U32Sat
  /\ crate \in {"ffi", "types"}
  /\ ty \in {TAccessRights, TURef}
  /\ val = Unit
  /\ \E bytes \in RightsInputs(crate, ty) :
       buf = [kind |-> "raw", t |-> ty, v |-> Unit, bytes |-> bytes]
  /\ res = NoRes
  /\ clv = NoCLV
  /\ out = NoOut
  /\ decoder = NoDecoder

RightsNext == FromBytes \/ Deserialize \/ EncodingDeserialize

RightsSpec == RightsInit /\ [][RightsNext]_vars

(***************************************************************************)
(* PointerBlock: new, indexing, assignment, from_indexed_pointers          *)
(***************************************************************************)
\* Index<usize> for PointerBlock: &dat[index], a bounds-checked array access
index(block, idx) == IF idx < Len(block.a) THEN OkT(block.a[idx + 1]) ELSE Panic

\* an assignment that takes the index modulo the number of slots
index_mut_wrapping(block, idx, slot) ==
  OkT(SeqV([block.a EXCEPT ![(idx % Len(block.a)) + 1] = slot]))

\* IndexMut<usize> for PointerBlock followed by the assignment of `slot`
index_mut(block, idx, slot) ==
  IF idx < Len(block.a) THEN OkT(SeqV([block.a EXCEPT ![idx + 1] = slot])) ELSE Panic

\* the loop of from_indexed_pointers over the pairs from position i on
RECURSIVE indexed_pointers_loop(_, _, _)
indexed_pointers_loop(indexed_pointers, i, ret) ==
  IF i > Len(indexed_pointers) THEN OkT(ret)
  ELSE LET assign(r) ==
             IF r.ok THEN indexed_pointers_loop(indexed_pointers, i + 1, r.v) ELSE r
       IN  assign(index_mut(ret, indexed_pointers[i][1], Some(indexed_pointers[i][2])))

\* PointerBlock::from_indexed_pointers
from_indexed_pointers(indexed_pointers) ==
  indexed_pointers_loop(indexed_pointers, 1, EmptyPointerBlock)

\* the indices tried: both ends, the first one off the end, and the ones a
\* narrower index type would fold back onto 0, 1 and 255
BlockIndices == {0, 1, 255, 256, 257, 511, 65536}

BlockPointers == {PointerV(0, Addr(5)), PointerV(1, Addr(6))}

\* the lists from_indexed_pointers is given: up to two pairs, over the ends,
\* the first index off the end and one far beyond it
IndexedPointers == SeqsUpTo({0, 255, 256, 65536} \X BlockPointers, 2)

NoBlock == Unit

BlockInit ==
  /\ mem = U32Sat
  /\ crate = "ffi"
  /\ ty = TPointerBlock
  /\ val = NoBlock
  /\ buf = NoBuf
  /\ res = NoRes
  /\ clv = NoCLV
  /\ out = NoOut
  /\ decoder = NoDecoder

\* let mut pointer_block = PointerBlock::new()
New ==
  /\ out.op # "panic"
  /\ val' = EmptyPointerBlock
  /\ out' = [op |-> "new", u |-> ty, r |-> NoResult]
  /\ UNCHANGED <<mem, crate, ty, buf, res, clv, decoder>>

\* let pointer_block = PointerBlock::from_indexed_pointers(&pairs)
FromIndexedPointers(pairs) ==
  /\ out.op # "panic"
  /\ LET built(r) ==
           IF r.ok
             THEN val' = r.v /\ out' = [op |-> "from_indexed_pointers", u |-> ty, r |-> NoResult]
             ELSE val' = val /\ out' = [op |-> "panic", u |-> ty, r |-> r]
     IN  built(from_indexed_pointers(pairs))
  /\ UNCHANGED <<mem, crate, ty, buf, res, clv, decoder>>

\* let _val = pointer_block[idx]
Index(idx) ==
  /\ out.op # "panic"
  /\ val # NoBlock
  /\ LET r == index(val, idx)
     IN  out' = [op |-> IF r.ok THEN "index" ELSE "panic", u |-> ty, r |-> r]
  /\ UNCHANGED <<mem, crate, ty, val, buf, res, clv, decoder>>

\* pointer_block[idx] = Some(pointer)
IndexMut(idx, pointer) ==
  /\ out.op # "panic"
  /\ val # NoBlock
  /\ LET r == index_mut(val, idx, Some(pointer))
     IN  IF r.ok
           THEN val' = r.v /\ out' = [op |-> "index_mut", u |-> ty, r |-> NoResult]
           ELSE val' = val /\ out' = [op |-> "panic", u |-> ty, r |-> r]
  /\ UNCHANGED <<mem, crate, ty, buf, res, clv, decoder>>

\* the digest VarBlake2b leaves in the 32-byte buffer: a function of the data
\* and of nothing else (a checksum stands for the digest)
Blake2bHashNew(data) ==
  BytesV([i \in 1..BLAKE2B_DIGEST_LENGTH |-> (Len(data) + i * (1 + SumSeq(data))) % 256])

\* a version that takes the block the caller last made instead of a new one
create_hashed_empty_trie_of_last_block ==
  LET root == NodeV(IF val = NoBlock THEN EmptyPointerBlock ELSE val)
      root_bytes == to_bytes(TLeafTrie, root)
  IN  OkT(SeqV(<<Blake2bHashNew(root_bytes), root>>))

\* operations::create_hashed_empty_trie::<K, V>()
create_hashed_empty_trie ==
  LET root == NodeV(EmptyPointerBlock)
      root_bytes == to_bytes(TLeafTrie, root)
  IN  OkT(SeqV(<<Blake2bHashNew(root_bytes), root>>))

\* let (root_hash, root) = create_hashed_empty_trie()?
CreateHashedEmptyTrie ==
  /\ out.op # "panic"
  /\ res' = [op |-> "create_hashed_empty_trie", r |-> create_hashed_empty_trie]
  /\ UNCHANGED <<mem, crate, ty, val, buf, clv, out, decoder>>

BlockNext ==
  \/ CreateHashedEmptyTrie
  \/ New
  \/ \E pairs \in IndexedPointers : FromIndexedPointers(pairs)
  \/ \E idx \in BlockIndices : Index(idx)
  \/ \E idx \in BlockIndices, pointer \in BlockPointers : IndexMut(idx, pointer)

BlockSpec == BlockInit /\ [][BlockNext]_vars

(***************************************************************************)
(* ApiError and its u32 / i32 codes                                        *)
(***************************************************************************)
\* ApiError::<variant>, and ApiError::<variant>(value) for Mint, ProofOfStake
\* and User
ApiErrorV(variant, value) == Mk(variant, value, <<>>, <<>>)

Unhandled == ApiErrorV("ApiError::Unhandled", 0)

\* a u32 on the wire of the host interface
U32V(x) == Mk("u32", 0, <<x.hi, x.lo>>, <<>>)

U32Of(v) == USize(v.s[1], v.s[2])

\* const RESERVED_ERROR_MAX: u32 = u16::MAX as u32
RESERVED_ERROR_MAX == Limb - 1

\* const POS_ERROR_OFFSET: u32 = RESERVED_ERROR_MAX - u8::MAX as u32
POS_ERROR_OFFSET == RESERVED_ERROR_MAX - 255

\* const MINT_ERROR_OFFSET: u32 = (POS_ERROR_OFFSET - 1) - u8::MAX as u32
MINT_ERROR_OFFSET == (POS_ERROR_OFFSET - 1) - 255

USER_ERROR_MIN == RESERVED_ERROR_MAX + 1

USER_ERROR_MAX == 2 * RESERVED_ERROR_MAX + 1

MINT_ERROR_MIN == MINT_ERROR_OFFSET

MINT_ERROR_MAX == POS_ERROR_OFFSET - 1

POS_ERROR_MIN == POS_ERROR_OFFSET

POS_ERROR_MAX == RESERVED_ERROR_MAX

\* the arms `ApiError::<variant> => <code>` of From<ApiError> for u32
FixedCode(v) ==
  CASE v = "ApiError::None" -> 1 [] v = "ApiError::MissingArgument" -> 2
      [] v = "ApiError::InvalidArgument" -> 3
      [] v = "ApiError::Deserialize" -> 4
      [] v = "ApiError::Read" -> 5 [] v = "ApiError::ValueNotFound" -> 6
      [] v = "ApiError::ContractNotFound" -> 7 [] v = "ApiError::GetKey" -> 8
      [] v = "ApiError::UnexpectedKeyVariant" -> 9
      [] v = "ApiError::UnexpectedContractRefVariant" -> 10
      [] v = "ApiError::InvalidPurseName" -> 11
      [] v = "ApiError::InvalidPurse" -> 12
      [] v = "ApiError::UpgradeContractAtURef" -> 13
      [] v = "ApiError::Transfer" -> 14
      [] v = "ApiError::NoAccessRights" -> 15
      [] v = "ApiError::CLTypeMismatch" -> 16
      [] v = "ApiError::EncodingExcessiveDiscriminants" -> 17
      [] v = "ApiError::EncodingEndOfSlice" -> 18
      [] v = "ApiError::EncodingLeftOverBytes" -> 19
      [] v = "ApiError::EncodingInvalidUtf8" -> 20
      [] v = "ApiError::EncodingInvalidBool" -> 21
      [] v = "ApiError::EncodingInvalidChar" -> 22
      [] v = "ApiError::EncodingInvalidTag" -> 23
      [] v = "ApiError::EncodingUnsupported" -> 24
      [] v = "ApiError::EncodingSizeLimit" -> 25
      [] v = "ApiError::EncodingSequenceMustHaveLength" -> 26
      [] v = "ApiError::EncodingCustom" -> 27
      [] v = "ApiError::MaxKeysLimit" -> 28
      [] v = "ApiError::DuplicateKey" -> 29
      [] v = "ApiError::PermissionDenied" -> 30
      [] v = "ApiError::MissingKey" -> 31
      [] v = "ApiError::ThresholdViolation" -> 32
      [] v = "ApiError::KeyManagementThreshold" -> 33
      [] v = "ApiError::DeploymentThreshold" -> 34
      [] v = "ApiError::InsufficientTotalWeight" -> 35
      [] v = "ApiError::InvalidSystemContract" -> 36
      [] v = "ApiError::PurseNotCreated" -> 37
      [] v = "ApiError::Unhandled" -> 38
      [] v = "ApiError::BufferTooSmall" -> 39
      [] v = "ApiError::HostBufferEmpty" -> 40
      [] v = "ApiError::HostBufferFull" -> 41
      [] v = "ApiError::AllocLayout" -> 42

FixedVariants ==
  { "ApiError::None", "ApiError::MissingArgument",
  "ApiError::InvalidArgument", "ApiError::Deserialize", "ApiError::Read",
  "ApiError::ValueNotFound", "ApiError::ContractNotFound",
  "ApiError::GetKey", "ApiError::UnexpectedKeyVariant",
  "ApiError::UnexpectedContractRefVariant", "ApiError::InvalidPurseName",
  "ApiError::InvalidPurse",
  "ApiError::UpgradeContractAtURef", "ApiError::Transfer",
  "ApiError::NoAccessRights", "ApiError::CLTypeMismatch",
  "ApiError::EncodingExcessiveDiscriminants", "ApiError::EncodingEndOfSlice",
  "ApiError::EncodingLeftOverBytes", "ApiError::EncodingInvalidUtf8",
  "ApiError::EncodingInvalidBool",
  "ApiError::EncodingInvalidChar", "ApiError::EncodingInvalidTag",
  "ApiError::EncodingUnsupported",
  "ApiError::EncodingSizeLimit", "ApiError::EncodingSequenceMustHaveLength",
  "ApiError::EncodingCustom",
  "ApiError::MaxKeysLimit", "ApiError::DuplicateKey",
  "ApiError::PermissionDenied", "ApiError::MissingKey",
  "ApiError::ThresholdViolation", "ApiError::KeyManagementThreshold",
  "ApiError::DeploymentThreshold",
  "ApiError::InsufficientTotalWeight", "ApiError::InvalidSystemContract",
  "ApiError::PurseNotCreated",
  "ApiError::Unhandled", "ApiError::BufferTooSmall",
  "ApiError::HostBufferEmpty", "ApiError::HostBufferFull",
  "ApiError::AllocLayout"}

\* the arms `<code> => ApiError::<variant>` of From<u32> for ApiError
FixedVariant(code) ==
  CASE code = 1 -> "ApiError::None" [] code = 2 -> "ApiError::MissingArgument"
  [] code = 3 -> "ApiError::InvalidArgument"
  [] code = 4 -> "ApiError::Deserialize"
  [] code = 5 -> "ApiError::Read" [] code = 6 -> "ApiError::ValueNotFound"
  [] code = 7 -> "ApiError::ContractNotFound" [] code = 8 -> "ApiError::GetKey"
  [] code = 9 -> "ApiError::UnexpectedKeyVariant"
  [] code = 10 -> "ApiError::UnexpectedContractRefVariant"
  [] code = 11 -> "ApiError::InvalidPurseName"
  [] code = 12 -> "ApiError::InvalidPurse"
  [] code = 13 -> "ApiError::UpgradeContractAtURef"
  [] code = 14 -> "ApiError::Transfer"
  [] code = 15 -> "ApiError::NoAccessRights"
  [] code = 16 -> "ApiError::CLTypeMismatch"
  [] code = 17 -> "ApiError::EncodingExcessiveDiscriminants"
  [] code = 18 -> "ApiError::EncodingEndOfSlice"
  [] code = 19 -> "ApiError::EncodingLeftOverBytes"
  [] code = 20 -> "ApiError::EncodingInvalidUtf8"
  [] code = 21 -> "ApiError::EncodingInvalidBool"
  [] code = 22 -> "ApiError::EncodingInvalidChar"
  [] code = 23 -> "ApiError::EncodingInvalidTag"
  [] code = 24 -> "ApiError::EncodingUnsupported"
  [] code = 25 -> "ApiError::EncodingSizeLimit"
  [] code = 26 -> "ApiError::EncodingSequenceMustHaveLength"
  [] code = 27 -> "ApiError::EncodingCustom"
  [] code = 28 -> "ApiError::MaxKeysLimit"
  [] code = 29 -> "ApiError::DuplicateKey"
  [] code = 30 -> "ApiError::PermissionDenied"
  [] code = 31 -> "ApiError::MissingKey"
  [] code = 32 -> "ApiError::ThresholdViolation"
  [] code = 33 -> "ApiError::KeyManagementThreshold"
  [] code = 34 -> "ApiError::DeploymentThreshold"
  [] code = 35 -> "ApiError::InsufficientTotalWeight"
  [] code = 36 -> "ApiError::InvalidSystemContract"
  [] code = 37 -> "ApiError::PurseNotCreated"
  [] code = 38 -> "ApiError::Unhandled"
  [] code = 39 -> "ApiError::BufferTooSmall"
  [] code = 40 -> "ApiError::HostBufferEmpty"
  [] code = 41 -> "ApiError::HostBufferFull"
  [] code = 42 -> "ApiError::AllocLayout"
  [] OTHER -> "ApiError::Unhandled"

\* `lo..=hi` as a match pattern on a u32
InRange(value, lo, hi) == usize_ge(value, usize(lo)) /\ usize_ge(usize(hi), value)

\* value as u16
as_u16(value) == value.lo

\* value as u8
as_u8(value) == value.lo % 256

\* impl From<ApiError> for u32, with User placed one code too low
u32_from_user_overlapping(error) ==
  CASE error.k = "ApiError::Mint" -> usize(MINT_ERROR_OFFSET + error.n)
    [] error.k = "ApiError::ProofOfStake" -> usize(POS_ERROR_OFFSET + error.n)
    [] error.k = "ApiError::User" -> usize(RESERVED_ERROR_MAX + error.n)
    [] OTHER -> usize(FixedCode(error.k))

\* impl From<ApiError> for u32
u32_from(error) ==
  CASE error.k = "ApiError::Mint" -> usize(MINT_ERROR_OFFSET + error.n)
    [] error.k = "ApiError::ProofOfStake" -> usize(POS_ERROR_OFFSET + error.n)
    [] error.k = "ApiError::User" -> usize(RESERVED_ERROR_MAX + 1 + error.n)
    [] OTHER -> usize(FixedCode(error.k))

\* impl From<u32> for ApiError
api_error_from(value) ==
  CASE InRange(value, 1, 42) -> ApiErrorV(FixedVariant(value.lo), 0)
    [] InRange(value, USER_ERROR_MIN, USER_ERROR_MAX) ->
         ApiErrorV("ApiError::User", as_u16(value))
    [] InRange(value, POS_ERROR_MIN, POS_ERROR_MAX) ->
         ApiErrorV("ApiError::ProofOfStake", as_u8(value))
    [] InRange(value, MINT_ERROR_MIN, MINT_ERROR_MAX) ->
         ApiErrorV("ApiError::Mint", as_u8(value))
    [] OTHER -> Unhandled

\* value as i32, of a u32: the same 32 bits read in two's complement
u32_as_i32(value) ==
  IF value.hi >= Limb \div 2 THEN (value.hi - Limb) * Limb + value.lo
  ELSE value.hi * Limb + value.lo

\* value as u32, of an i32
i32_as_u32(value) == USize((value \div Limb) % Limb, value % Limb)

\* pub fn i32_from(result: Result<(), ApiError>) -> i32
i32_from(result) ==
  IF result.k = "ok" THEN 0 ELSE u32_as_i32(u32_from(result.a[1]))

\* pub fn result_from(value: i32) -> Result<(), ApiError>
result_from(value) ==
  IF value = 0 THEN OkV(Unit) ELSE ErrV(api_error_from(i32_as_u32(value)))

\* the errors a contract can return: every fixed variant, every Mint and
\* ProofOfStake payload, and User payloads at both ends and across the bytes
UserValues == {0, 1, 255, 256, 257, 32767, 32768, 65279, 65280, 65534, 65535}

ApiErrors ==
  {ApiErrorV(v, 0) : v \in FixedVariants}
    \cup {ApiErrorV("ApiError::Mint", x) : x \in 0..255}
    \cup {ApiErrorV("ApiError::ProofOfStake", x) : x \in 0..255}
    \cup {ApiErrorV("ApiError::User", x) : x \in UserValues}

\* the u32 codes a host can hand back: around every boundary of the ranges,
\* in every position of the high half
CodeLows == (0..50) \cup (65000..65535) \cup {255, 256, 32767, 32768}

CodeHighs == {0, 1, 2, 255, 32767, 32768, 65535}

Codes == {U32V(USize(hi, lo)) : hi \in CodeHighs, lo \in CodeLows}

I32Values ==
  {0, 1, 42, 43, 65023, 65024, 65279, 65280, 65535, 65536, 131071, 131072,
   2147483647, -1, -42, -65536, -131071, -2147483647, -2147483647 - 1}

ApiResults == {OkV(Unit)} \cup {ErrV(e) : e \in ApiErrors}

ApiInit ==
  /\ mem = U32Sat
  /\ crate = "types"
  /\ ty = TU32
  /\ val \in ApiErrors \cup Codes \cup ApiResults \cup {IntV(i) : i \in I32Values}
  /\ buf = NoBuf
  /\ res = NoRes
  /\ clv = NoCLV
  /\ out = NoOut
  /\ decoder = NoDecoder

IsApiError(v) == v.k \in FixedVariants \cup {"ApiError::Mint", "ApiError::ProofOfStake", "ApiError::User"}

\* let code: u32 = error.into()
U32From ==
  /\ res.op = "none" /\ out.op = "none"
  /\ IsApiError(val)
  /\ res' = [op |-> "u32_from", r |-> OkT(U32V(u32_from(val)))]
  /\ UNCHANGED <<mem, crate, ty, val, buf, clv, out, decoder>>

\* ApiError::from(code), of a code of the host or of the one just produced
ApiErrorFrom ==
  /\ out.op = "none"
  /\ \/ res.op = "none" /\ val.k = "u32"
        /\ out' = [op |-> "api_error_from", u |-> ty,
                   r |-> OkT(api_error_from(U32Of(val)))]
     \/ res.op = "u32_from"
        /\ out' = [op |-> "api_error_from", u |-> ty,
                   r |-> OkT(api_error_from(U32Of(res.r.v)))]
  /\ UNCHANGED <<mem, crate, ty, val, buf, res, clv, decoder>>

\* let code = i32_from(result)
I32From ==
  /\ res.op = "none" /\ out.op = "none"
  /\ val.k \in {"ok", "err"}
  /\ res' = [op |-> "i32_from", r |-> OkT(IntV(i32_from(val)))]
  /\ UNCHANGED <<mem, crate, ty, val, buf, clv, out, decoder>>

\* result_from(code), of a code of the host or of the one just produced
ResultFrom ==
  /\ out.op = "none"
  /\ \/ res.op = "none" /\ val.k = "int"
        /\ out' = [op |-> "result_from", u |-> ty, r |-> OkT(result_from(val.n))]
     \/ res.op = "i32_from"
        /\ out' = [op |-> "result_from", u |-> ty, r |-> OkT(result_from(res.r.v.n))]
  /\ UNCHANGED <<mem, crate, ty, val, buf, res, clv, decoder>>

ApiNext == U32From \/ ApiErrorFrom \/ I32From \/ ResultFrom

ApiSpec == ApiInit /\ [][ApiNext]_vars

(***************************************************************************)
(* GasCounter: a u64 counter, or a u64 buffer in front of a U512           *)
(***************************************************************************)
\* u64 and U512 values are little-endian sequences of 16-bit limbs
U64Limbs == 4

U512Limbs == 32

Zero(n) == [i \in 1..n |-> 0]

\* the limbs of x + y from limb i on, then the carry out of the last one
RECURSIVE add_from(_, _, _, _)
add_from(x, y, i, carry) ==
  IF i > Len(x) THEN <<carry>>
  ELSE <<(x[i] + y[i] + carry) % Limb>> \o add_from(x, y, i + 1, (x[i] + y[i] + carry) \div Limb)

\* the limbs of x - y from limb i on, then the borrow out of the last one
RECURSIVE sub_from(_, _, _, _)
sub_from(x, y, i, borrow) ==
  IF i > Len(x) THEN <<borrow>>
  ELSE <<((x[i] + Limb) - y[i] - borrow) % Limb>>
         \o sub_from(x, y, i + 1, IF x[i] - borrow < y[i] THEN 1 ELSE 0)

\* x + y in the width of x, and whether it overflowed
wrapping_add(x, y) == SubSeq(add_from(x, y, 1, 0), 1, Len(x))

add_overflows(x, y) == add_from(x, y, 1, 0)[Len(x) + 1] = 1

\* x - y in the width of x, and whether it underflowed
wrapping_sub(x, y) == SubSeq(sub_from(x, y, 1, 0), 1, Len(x))

sub_underflows(x, y) == sub_from(x, y, 1, 0)[Len(x) + 1] = 1

\* x < y
lt(x, y) == sub_underflows(x, y)

\* U512::from(x: u64)
U512_from(x) == x \o Zero(U512Limbs - U64Limbs)

\* U512::as_u64: the low 64 bits
as_u64(x) == SubSeq(x, 1, U64Limbs)

\* u64::max_value()
u64_max_value == [i \in 1..U64Limbs |-> Limb - 1]

\* cmp::min
min(x, y) == IF lt(y, x) THEN y ELSE x

\* the outcome of a call: the counter it leaves, Ok / Err / panic, the
\* subtraction or addition that panicked, and the flushes it made
Outcome(counter, r, at, flushes) ==
  [counter |-> counter, r |-> r, at |-> at, flushes |-> flushes]

\* SmallGasCounter::new
small_new(limit, initial_count) ==
  [variant |-> "Small", limit |-> as_u64(limit), used |-> as_u64(initial_count)]

\* SmallGasCounter::add
small_add(self, additional_gas) ==
  IF sub_underflows(self.limit, self.used)
    THEN Outcome(self, "panic", "limit - used", 0)
  ELSE IF lt(wrapping_sub(self.limit, self.used), additional_gas)
    THEN Outcome(self, "Err", "", 0)
  ELSE Outcome([self EXCEPT !.used = wrapping_add(self.used, additional_gas)], "Ok", "", 0)

\* SmallGasCounter::set_gas_used
small_set_gas_used(self, gas_used) == [self EXCEPT !.used = as_u64(gas_used)]

\* LargeGasCounter::flush_buffer
flush_buffer(self) ==
  LET rest == wrapping_add(self.rest_of_used, U512_from(self.used_buffer))
      flushed == [self EXCEPT !.rest_of_used = rest, !.used_buffer = Zero(U64Limbs)]
  IN  IF add_overflows(self.rest_of_used, U512_from(self.used_buffer))
        THEN Outcome(self, "panic", "rest_of_used += used_buffer", 1)
      ELSE IF sub_underflows(self.total_limit, rest)
        THEN Outcome(flushed, "panic", "total_limit - rest_of_used", 1)
      ELSE Outcome([flushed EXCEPT !.limit_for_buffer =
                      as_u64(min(U512_from(u64_max_value),
                                 wrapping_sub(self.total_limit, rest)))],
                   "Ok", "", 1)

\* LargeGasCounter::new
large_new(limit, initial_count) ==
  flush_buffer([variant |-> "Large", total_limit |-> limit,
                limit_for_buffer |-> Zero(U64Limbs), used_buffer |-> Zero(U64Limbs),
                rest_of_used |-> initial_count]).counter

\* LargeGasCounter::add, which fails at once when the buffer is full
RECURSIVE large_add(_, _)
large_add_without_flush(self, additional_gas) ==
  IF sub_underflows(self.limit_for_buffer, self.used_buffer)
    THEN Outcome(self, "panic", "limit_for_buffer - used_buffer", 0)
  ELSE IF lt(wrapping_sub(self.limit_for_buffer, self.used_buffer), additional_gas)
    THEN Outcome(self, "Err", "", 0)
  ELSE Outcome([self EXCEPT !.used_buffer = wrapping_add(self.used_buffer, additional_gas)],
               "Ok", "", 0)

\* LargeGasCounter::add
large_add(self, additional_gas) ==
  IF sub_underflows(self.limit_for_buffer, self.used_buffer)
    THEN Outcome(self, "panic", "limit_for_buffer - used_buffer", 0)
  ELSE IF lt(wrapping_sub(self.limit_for_buffer, self.used_buffer), additional_gas)
    THEN IF self.used_buffer # Zero(U64Limbs)
           THEN LET flush(f) ==
                      IF f.r = "panic" THEN f
                      ELSE LET again(o) == [o EXCEPT !.flushes = o.flushes + 1]
                           IN  again(large_add(f.counter, additional_gas))
                IN  flush(flush_buffer(self))
         ELSE Outcome(self, "Err", "", 0)
  ELSE Outcome([self EXCEPT !.used_buffer = wrapping_add(self.used_buffer, additional_gas)],
               "Ok", "", 0)

\* LargeGasCounter::set_gas_used
large_set_gas_used(self, gas_used) ==
  [self EXCEPT !.used_buffer = Zero(U64Limbs), !.rest_of_used = gas_used]

\* GasCounter::new, for limit >= initial_count
gas_counter_new(limit, initial_count) ==
  IF ~lt(U512_from(u64_max_value), limit) THEN small_new(limit, initial_count)
  ELSE large_new(limit, initial_count)

\* GasCounter::add
gas_counter_add(self, additional_gas) ==
  IF self.variant = "Small" THEN small_add(self, additional_gas)
  ELSE large_add(self, additional_gas)

\* GasCounter::set_gas_used
gas_counter_set_gas_used(self, gas_used) ==
  IF self.variant = "Small" THEN small_set_gas_used(self, gas_used)
  ELSE large_set_gas_used(self, gas_used)

\* GasCounter::limit
limit(self) ==
  IF self.variant = "Small" THEN U512_from(self.limit) ELSE self.total_limit

\* GasCounter::used; the sum is taken in U512 and panics past its width
used(self) ==
  IF self.variant = "Small" THEN U512_from(self.used)
  ELSE wrapping_add(U512_from(self.used_buffer), self.rest_of_used)

\* a u64 and a U512 of small value, and the ones around 2^64
u64(n) == <<n>> \o Zero(U64Limbs - 1)

u64_below_max(n) == <<(Limb - 1) - n>> \o [i \in 1..(U64Limbs - 1) |-> Limb - 1]

U512Small(n) == U512_from(u64(n))

\* 2^64 + n
U512Above(n) == <<n>> \o Zero(U64Limbs - 1) \o <<1>> \o Zero(U512Limbs - U64Limbs - 1)

\* the number of calls made on one counter
MaxCalls == 3

GasLimits ==
  {U512Small(0), U512Small(4), U512_from(u64_below_max(1)), U512_from(u64_max_value),
   U512Above(0), U512Above(1), U512Above(4)}

GasAmounts == {u64(0), u64(1), u64(3), u64_below_max(1), u64_max_value}

GasUsed(l) == {U512Small(0), U512Small(3), U512Above(0), l} \ {x \in {U512Small(3), U512Above(0)} : lt(l, x)}

NoCounter == [variant |-> "none"]

NoCalls == [kind |-> "calls", t |-> TUnit, v |-> Unit, bytes |-> <<>>]

\* let mut gc = GasCounter::new(Gas::new(limit), Gas::new(initial_count))
GasInit ==
  /\ mem = U32Sat
  /\ crate = "engine-core"
  /\ ty = TUnit
  /\ \E l \in GasLimits : \E initial_count \in GasUsed(l) :
       /\ val = gas_counter_new(l, initial_count)
       /\ clv = [src |-> "new", v |-> <<l, initial_count>>]
  /\ buf = NoCalls
  /\ res = NoRes
  /\ out = NoOut
  /\ decoder = NoDecoder

\* gc.add(additional_gas)
Add(additional_gas) ==
  /\ out.r # Panic
  /\ Len(buf.bytes) < MaxCalls
  /\ LET call(o) ==
           /\ val' = o.counter
           /\ out' = [op |-> "add", u |-> ty,
                      r |-> CASE o.r = "Ok" -> OkT(Unit)
                              [] o.r = "Err" -> Err("GasLimitError")
                              [] OTHER -> Panic]
           /\ res' = [op |-> o.at, r |-> OkT(IntV(o.flushes))]
     IN  call(gas_counter_add(val, additional_gas))
  /\ buf' = [buf EXCEPT !.bytes = Append(@, <<"add", additional_gas>>)]
  /\ UNCHANGED <<mem, crate, ty, clv, decoder>>

\* gc.set_gas_used(Gas::new(gas_used))
SetGasUsed(gas_used) ==
  /\ out.r # Panic
  /\ Len(buf.bytes) < MaxCalls
  /\ val' = gas_counter_set_gas_used(val, gas_used)
  /\ out' = [op |-> "set_gas_used", u |-> ty, r |-> OkT(Unit)]
  /\ res' = NoRes
  /\ buf' = [buf EXCEPT !.bytes = Append(@, <<"set_gas_used", gas_used>>)]
  /\ UNCHANGED <<mem, crate, ty, clv, decoder>>

\* a counter that is only ever added to
GasAddNext == \E additional_gas \in GasAmounts : Add(additional_gas)

GasAddSpec == GasInit /\ [][GasAddNext]_vars

\* a counter that is added to and reset
GasNext ==
  \/ \E additional_gas \in GasAmounts : Add(additional_gas)
  \/ \E gas_used \in GasUsed(limit(val)) : SetGasUsed(gas_used)

GasSpec == GasInit /\ [][GasNext]_vars

(***************************************************************************)
(* The mint contract's Error and its u8 discriminants                      *)
(***************************************************************************)
MintErrorV(variant) == Mk(variant, 0, <<>>, <<>>)

\* pub enum Error, #[repr(u8)]: `e as u8`
mint_error_as_u8(e) ==
  CASE e.k = "Error::InsufficientFunds" -> 0
    [] e.k = "Error::SourceNotFound" -> 1
    [] e.k = "Error::DestNotFound" -> 2
    [] e.k = "Error::InvalidURef" -> 3
    [] e.k = "Error::InvalidAccessRights" -> 4
    [] e.k = "Error::InvalidNonEmptyPurseCreation" -> 5
    [] e.k = "Error::Storage" -> 6
    [] e.k = "Error::PurseNotFound" -> 7

MintErrors ==
  {MintErrorV(v) : v \in {"Error::InsufficientFunds", "Error::SourceNotFound",
                          "Error::DestNotFound", "Error::InvalidURef",
                          "Error::InvalidAccessRights",
                          "Error::InvalidNonEmptyPurseCreation", "Error::Storage",
                          "Error::PurseNotFound"}}

\* impl TryFrom<u8> for Error
mint_error_try_from(value) ==
  CASE value = mint_error_as_u8(MintErrorV("Error::InsufficientFunds")) ->
         OkT(MintErrorV("Error::InsufficientFunds"))
    [] value = mint_error_as_u8(MintErrorV("Error::SourceNotFound")) ->
         OkT(MintErrorV("Error::SourceNotFound"))
    [] value = mint_error_as_u8(MintErrorV("Error::DestNotFound")) ->
         OkT(MintErrorV("Error::DestNotFound"))
    [] value = mint_error_as_u8(MintErrorV("Error::InvalidURef")) ->
         OkT(MintErrorV("Error::InvalidURef"))
    [] value = mint_error_as_u8(MintErrorV("Error::InvalidAccessRights")) ->
         OkT(MintErrorV("Error::InvalidAccessRights"))
    [] value = mint_error_as_u8(MintErrorV("Error::InvalidNonEmptyPurseCreation")) ->
         OkT(MintErrorV("Error::InvalidNonEmptyPurseCreation"))
    [] OTHER -> Err("TryFromU8ForError")

MintInit ==
  /\ mem = U32Sat
  /\ crate = "types"
  /\ ty = TU8
  /\ val \in MintErrors \cup {IntV(b) : b \in AllBytes}
  /\ buf = NoBuf
  /\ res = NoRes
  /\ clv = NoCLV
  /\ out = NoOut
  /\ decoder = NoDecoder

\* let value = e as u8
AsU8 ==
  /\ res.op = "none" /\ out.op = "none"
  /\ val \in MintErrors
  /\ res' = [op |-> "as_u8", r |-> OkT(IntV(mint_error_as_u8(val)))]
  /\ UNCHANGED <<mem, crate, ty, val, buf, clv, out, decoder>>

\* Error::try_from(value), of any byte or of the one just produced
TryFrom ==
  /\ out.op = "none"
  /\ \/ res.op = "none" /\ val.k = "int"
        /\ out' = [op |-> "try_from", u |-> ty, r |-> mint_error_try_from(val.n)]
     \/ res.op = "as_u8"
        /\ out' = [op |-> "try_from", u |-> ty, r |-> mint_error_try_from(res.r.v.n)]
  /\ UNCHANGED <<mem, crate, ty, val, buf, res, clv, decoder>>

MintNext == AsU8 \/ TryFrom

MintSpec == MintInit /\ [][MintNext]_vars

(***************************************************************************)
(* Properties                                                              *)
(***************************************************************************)
\* the types the round-trip law enumerates: every modelled type but char
Listed(t) == t.k # "char"

IsDecode(op) == op \in {"from_bytes", "deserialize"}

\* C1: round trip.  Decoding the complete encoding of a value v of a listed
\* type returns exactly v and leaves nothing: T::from_bytes gives (v, []),
\* bytesrepr::deserialize and encoding::deserialize give v.
C1_RoundTrip ==
  (buf.kind = "exact" /\ Listed(buf.t) /\ IsDecode(res.op)) => res.r = Ok(buf.v, <<>>)

\* a Result value (tag byte and payload) came back from its encoding
C1_Witness ==
  /\ buf.kind = "exact" /\ res.op = "from_bytes"
  /\ buf.t = TResult(TU8, TString) /\ buf.v.k = "err"
  /\ res.r.ok /\ res.r.v = buf.v

\* C2: the length computed without encoding equals the length of the
\* encoding: serialized_length (contract-ffi, CLType included) and
\* encoding::serialized_length (types) both return Len of the bytes written.
C2_SerializedLength ==
  (buf.kind = "exact" /\ res.op = "serialized_length") => res.r = Ok(IntV(Len(buf.bytes)), <<>>)

\* the length of a CLType with a tuple of three sub-types was computed
C2_Witness ==
  /\ buf.kind = "exact" /\ res.op = "serialized_length"
  /\ buf.t = TCLType /\ buf.v.k = "CLType::Tuple3"
  /\ res.r.ok /\ res.r.v.n > 3

\* C3: truncation rejection.  Decoding as T the encoding of a value with its
\* last byte removed returns an error value, never a value of T.
C3_TruncationRejected ==
  (buf.kind = "truncated" /\ IsDecode(res.op)) =>
    (~res.r.ok /\ res.r.e \in {"EarlyEndOfStream", "FormattingError", "OutOfMemoryError",
                               "EndOfSlice", "Utf8", "Custom", "InvalidCharEncoding"})

\* a map of URefs lost its last byte and the decode failed
C3_Witness ==
  /\ buf.kind = "truncated" /\ IsDecode(res.op)
  /\ buf.t = TMap(TString, TURef) /\ Len(buf.bytes) > 40
  /\ ~res.r.ok

\* C4: trailing-byte rejection in the types codec.  encoding::deserialize
\* on a complete encoding with one extra byte appended returns an error.
C4_TrailingByteRejected ==
  (crate = "types" /\ buf.kind = "extended" /\ res.op = "deserialize") => ~res.r.ok

\* C5: CLValue type-safety.  from_t(v: T).into_t::<U>() with
\* T::cl_type() # U::cl_type() is a Type error whose expected is
\* U::cl_type() and whose found is T::cl_type(); no value of U comes out.
C5_TypeSafety ==
  (out.op = "into_t" /\ clv.src = "from_t" /\ cl_type(ty) # cl_type(out.u)) =>
    /\ ~out.r.ok
    /\ out.r.e = "Type"
    /\ out.r.v.a = <<cl_type(out.u), cl_type(ty)>>

\* a String held as a CLValue was asked for as a Vec<u8>, whose encoding has
\* the same bytes
C5_Witness ==
  /\ out.op = "into_t" /\ clv.src = "from_t"
  /\ ty = TString /\ out.u = TVec(TU8)
  /\ out.r.e = "Type"

\* the CLValue held is from_t(v), or was decoded from the encoding of it
FromTOfVal ==
  LET cl_value == IF crate = "ffi" THEN from_t(ty, val) ELSE types_from_t(ty, val)
  IN  \/ clv.src = "from_t"
      \/ clv.src = "from_bytes" /\ buf.kind = "exact" /\ buf.v = cl_value

\* C6: from_t(v) then into_t::<T>() is Ok(v); a CLValue decoded from its own
\* encoding equals the original, and into_t::<T>() on it is still Ok(v).
C6_FromTIntoT ==
  /\ (out.op = "into_t" /\ out.u = ty /\ FromTOfVal) => out.r = Ok(val, <<>>)
  /\ (clv.src = "from_bytes" /\ buf.kind = "exact") => clv.v = buf.v

\* a map of URefs went through from_t, the CLValue encoding and back, and
\* into_t returned it
C6_Witness ==
  /\ out.op = "into_t" /\ out.u = ty /\ clv.src = "from_bytes" /\ buf.kind = "exact"
  /\ buf.v = (IF crate = "ffi" THEN from_t(ty, val) ELSE types_from_t(ty, val))
  /\ ty = TMap(TString, TURef) /\ Len(val.a) = 4
  /\ out.r.ok

\* the values of a map, in ascending key order
MapValues(m) == [i \in 1..(Len(m.a) \div 2) |-> m.a[2 * i]]

\* the byte position at which the i-th value of a BTreeMap<String, URef>
\* starts: the count, the entries before it, and its own key
ValuePosition(m, i) ==
  4 + SumSeq([j \in 1..(i - 1) |->
                (4 + Len(m.a[2 * j - 1].s)) + Len(to_bytes(TURef, m.a[2 * j]))])
    + (4 + Len(m.a[2 * i - 1].s))

\* C7: URef discoverability.  For a BTreeMap<String, URef> m,
\* from_t(m).contained_urefs() is exactly the URefs of m, once each, in
\* ascending key order, address and rights (None included) unchanged, and
\* every stored offset is the byte position where that URef's encoding starts.
C7_URefDiscoverability ==
  (out.op = "contained_urefs" /\ clv.src = "from_t" /\ ty = TMap(TString, TURef)) =>
    /\ out.r = Ok(SeqV(MapValues(val)), <<>>)
    /\ Len(clv.v.a[2].a) = Len(val.a) \div 2
    /\ \A i \in 1..Len(clv.v.a[2].a) :
         /\ clv.v.a[2].a[i] = IntV(ValuePosition(val, i))
         /\ SubSeq(clv.v.s, ValuePosition(val, i) + 1,
                   ValuePosition(val, i) + Len(to_bytes(TURef, val.a[2 * i])))
              = to_bytes(TURef, val.a[2 * i])

\* two URefs were found, the first of them without rights
C7_Witness ==
  /\ out.op = "contained_urefs" /\ clv.src = "from_t" /\ ty = TMap(TString, TURef)
  /\ out.r.ok /\ Len(out.r.v.a) = 2
  /\ out.r.v.a[1].a[1] = None /\ out.r.v.a[2].a[1] # None

\* every URef inside a decoded value
RECURSIVE URefsIn(_)
URefsIn(v) ==
  IF v.k = "uref" THEN {v}
  ELSE UNION {URefsIn(v.a[i]) : i \in 1..Len(v.a)}

\* the types whose descriptor is the one the CLValue carries
TypesOf(c) == {t \in FfiTargets \cup TypesTargets \cup {ty} : IsCLTyped(t) /\ cl_type(t) = c}

\* C8: contained_urefs() returns every URef embedded in the payload, for a
\* CLValue built by from_t, by from_components or decoded by from_bytes.
C8_NoURefMissed ==
  (out.op = "contained_urefs") =>
    \A t \in TypesOf(clv.v.a[1]) :
      LET payload == bytesrepr_deserialize(t, clv.v.s)
      IN  payload.ok =>
            \A u \in URefsIn(payload.v) :
              out.r.ok /\ \E i \in 1..Len(out.r.v.a) : out.r.v.a[i] = u

\* C9: every CLValue held, however produced, has bytes that are exactly the
\* encoding of some value of a type whose descriptor is its cl_type.
C9_WellFormed ==
  (clv.src # "none") =>
    \E t \in TypesOf(clv.v.a[1]) :
      LET payload == IF crate = "ffi" THEN from_bytes(t, clv.v.s) ELSE deserialize(t, clv.v.s)
      IN  /\ payload.ok
          /\ payload.rem = <<>>
          /\ clv.v.s = (IF crate = "ffi" THEN to_bytes(t, payload.v)
                        ELSE encoding_serialize(t, payload.v).v.s)

\* C10: decoding never panics: every decode ends with a value or an error
\* value, and an error inside a structure is the error of the whole decode.
C10_NeverPanics ==
  /\ IsDecode(res.op) => res.r.e # "panic"
  /\ out.op = "into_t" => out.r.e # "panic"

\* the element or byte count a sequence, string or map is prefixed with
CountPrefixed(t, v) ==
  CASE t.k = "BTreeMap" -> usize(Len(v.a) \div 2)
    [] v.k \in {"filled", "units"} -> v.n
    [] OTHER -> usize(Len(v.a))

\* the u32 the first four bytes of an encoding hold
PrefixOf(bytes) == USize(bytes.head[3] + 256 * bytes.head[4], bytes.head[1] + 256 * bytes.head[2])

\* C11: size limit.  Encoding a value whose encoded length exceeds u32::MAX
\* fails with OutOfMemoryError (contract-ffi) or SizeLimit (types); an
\* encoding that is produced starts with the untruncated count; a value
\* whose encoding fits in u32::MAX bytes is not rejected.
C11_SizeLimit ==
  (res.op \in {"into_bytes", "serialize"}) =>
    /\ ~usize_ge(u32_max_value, usize_serialized_length(ty, val)) =>
         (~res.r.ok /\ res.r.e \in {"OutOfMemoryError", "SizeLimit"})
    /\ usize_ge(u32_max_value, usize_serialized_length(ty, val)) => res.r.ok
    /\ (res.r.ok /\ ty.k \in {"Vec", "String", "BTreeMap"}) =>
         PrefixOf(res.r.v) = CountPrefixed(ty, val)

\* what the top-level decode is said to make of T::from_bytes(bytes)
WholeBuffer(r) ==
  IF ~r.ok THEN r
  ELSE IF r.rem = <<>> THEN Ok(r.v, <<>>)
  ELSE Err("LeftOverBytes")

WireTable ==
  <<"CLType::Bool", "CLType::I32", "CLType::I64", "CLType::U8", "CLType::U32", "CLType::U64",
    "CLType::U128", "CLType::U256", "CLType::U512", "CLType::Unit", "CLType::String",
    "CLType::Key", "CLType::URef", "CLType::Option", "CLType::List", "CLType::FixedList",
    "CLType::Result", "CLType::Map", "CLType::Tuple1", "CLType::Tuple2", "CLType::Tuple3",
    "CLType::Any">>

Discriminant(c) == (CHOOSE i \in 1..Len(WireTable) : WireTable[i] = c.k) - 1

\* one discriminant byte, the sub-types in order, and for FixedList the length
\* as four little-endian bytes
RECURSIVE WireOf(_)
WireOf(c) ==
  <<Discriminant(c)>> \o Concat([i \in 1..Len(c.a) |-> WireOf(c.a[i])]) \o
  (IF c.k = "CLType::FixedList"
     THEN <<c.n % 256, (c.n \div 256) % 256, (c.n \div 65536) % 256, c.n \div 16777216>>
     ELSE <<>>)

\* how many sub-types follow the discriminant b
SubTypes(b) ==
  CASE b \in {13, 14, 15, 18} -> 1
    [] b \in {16, 17, 19} -> 2
    [] b = 20 -> 3
    [] OTHER -> 0

\* reading a serialized CLType left to right; todo lists what is still
\* expected, "T" a type and "L" a four-byte length: "bad" when a discriminant
\* past the table is met, "short" when the bytes run out, "done" otherwise
RECURSIVE TagWalk(_, _)
TagWalk(bytes, todo) ==
  IF todo = <<>> THEN "done"
  ELSE IF todo[1] = "L"
    THEN IF Len(bytes) < 4 THEN "short"
         ELSE TagWalk(SubSeq(bytes, 5, Len(bytes)), Tail(todo))
  ELSE IF bytes = <<>> THEN "short"
  ELSE IF bytes[1] > 21 THEN "bad"
  ELSE TagWalk(Tail(bytes),
               [i \in 1..SubTypes(bytes[1]) |-> "T"] \o
               (IF bytes[1] = 15 THEN <<"L">> ELSE <<>>) \o Tail(todo))

\* C13: a serialized CLType is one discriminant byte from the table 0 = Bool
\* ... 21 = Any followed by its sub-types (and the four-byte length for
\* FixedList), in both crates; decoding bytes in which a discriminant greater
\* than 21 is met at any depth fails, with FormattingError in contract-ffi
C13_WireTable ==
  /\ (buf.kind = "exact" /\ buf.t = TCLType) => buf.bytes = WireOf(buf.v)
  /\ (IsDecode(res.op) /\ buf.t = TCLType /\ TagWalk(buf.bytes, <<"T">>) = "bad") =>
       /\ ~res.r.ok
       /\ crate = "ffi" => res.r = Err("FormattingError")

\* a discriminant past the table under a well-formed Option tag was decoded,
\* after a FixedList type was encoded and decoded by the same host
C13_Witness ==
  /\ crate = "ffi" /\ res.op = "from_bytes" /\ buf.kind = "raw" /\ buf.t = TCLType
  /\ buf.bytes = <<13, 22>>
  /\ res.r = Err("FormattingError")

(***************************************************************************)
(* bool                                                                    *)
(***************************************************************************)
\* C14: a bool encodes as the one byte 1 (true) or 0 (false) in both crates,
\* and decoding a bool from a first byte other than 0 and 1 fails, with
\* FormattingError in contract-ffi and InvalidBoolEncoding in types
C14_Bool ==
  /\ (buf.kind = "exact" /\ buf.t = TBool) =>
       buf.bytes = (IF buf.v = BoolV(TRUE) THEN <<1>> ELSE <<0>>)
  /\ (IsDecode(res.op) /\ buf.t = TBool /\ buf.bytes # <<>> /\ buf.bytes[1] \notin {0, 1}) =>
       res.r = Err(IF crate = "ffi" THEN "FormattingError" ELSE "InvalidBoolEncoding")

\* the byte 255 was decoded as a bool by contract-ffi and refused
C14_Witness ==
  /\ crate = "ffi" /\ res.op = "from_bytes" /\ buf.t = TBool
  /\ buf.bytes # <<>> /\ buf.bytes[1] = 255
  /\ res.r = Err("FormattingError")

(***************************************************************************)
(* Option and Result tags                                                  *)
(***************************************************************************)
\* the encoding of a payload in the crate at hand
PayloadBytes(t, v) == IF crate = "ffi" THEN to_bytes(t, v) ELSE encoding_serialize(t, v).v.s

\* tag 0 for None, tag 1 and the payload for Some
OptionEncoding ==
  (buf.kind = "exact" /\ buf.t.k = "Option") =>
    /\ buf.v = None => buf.bytes = <<0>>
    /\ buf.v # None => buf.bytes = <<1>> \o PayloadBytes(buf.t.a[1], buf.v.a[1])
    /\ (buf.t = TOption(TU8) /\ buf.v = Some(IntV(5))) => buf.bytes = <<1, 5>>

\* tag 1 and the Ok payload, tag 0 and the Err payload
ResultEncoding ==
  (buf.kind = "exact" /\ buf.t.k = "Result") =>
    /\ buf.v.k = "ok" => buf.bytes = <<1>> \o PayloadBytes(buf.t.a[1], buf.v.a[1])
    /\ buf.v.k = "err" => buf.bytes = <<0>> \o PayloadBytes(buf.t.a[2], buf.v.a[1])

\* a tag byte other than 0 and 1 is refused
TagRefused ==
  (IsDecode(res.op) /\ buf.t.k \in {"Option", "Result"}
     /\ buf.bytes # <<>> /\ buf.bytes[1] \notin {0, 1}) => ~res.r.ok

\* C15: Option<T> encodes as tag 0 for None and tag 1 followed by the payload
\* for Some (Some(5u8) is [1, 5], None is [0]); Result<T, E> encodes as tag 1
\* followed by the Ok payload and tag 0 followed by the Err payload; decoding
\* either from a tag byte other than 0 and 1 returns an error
C15_Tags == OptionEncoding /\ ResultEncoding /\ TagRefused

\* the same, with the Result part read for contract-ffi alone
C15_TagsFfi == OptionEncoding /\ (crate = "ffi" => ResultEncoding) /\ TagRefused

(***************************************************************************)
(* Map encoding                                                            *)
(***************************************************************************)
\* the keys a map holds, and the value it holds for a key
KeySet(m) == {m.a[2 * i - 1] : i \in 1..(Len(m.a) \div 2)}

ValueAt(m, k) == m.a[2 * (CHOOSE i \in 1..(Len(m.a) \div 2) : m.a[2 * i - 1] = k)]

\* the keys of a set in ascending order
Ascending(S) ==
  CHOOSE seq \in [1..Cardinality(S) -> S] :
    \A i \in 1..Cardinality(S), j \in 1..Cardinality(S) : i < j => KeyLess(seq[i], seq[j])

\* the entry count as four little-endian bytes, then each key and its value
\* in ascending key order: a function of the set of entries alone
CanonicalMapBytes(t, m) ==
  LET keys == Ascending(KeySet(m))
      n == Len(keys)
  IN  <<n % 256, (n \div 256) % 256, 0, 0>> \o
      Concat([i \in 1..n |->
                PayloadBytes(t.a[1], keys[i]) \o PayloadBytes(t.a[2], ValueAt(m, keys[i]))])

\* C16: the encoding of a BTreeMap is a function of its set of entries,
\* whatever the order in which they were inserted: the 4-byte little-endian
\* entry count followed by the key and value encodings in ascending key order
C16_MapEncoding ==
  (buf.kind = "exact" /\ buf.t.k = "BTreeMap") =>
    /\ Len(buf.v.a) = 2 * Cardinality(KeySet(buf.v))
    /\ buf.bytes = CanonicalMapBytes(buf.t, buf.v)

\* a map of three string keys, reachable by six insertion orders, was encoded
C16_Witness ==
  /\ buf.kind = "exact" /\ buf.t = TMap(TString, TU8)
  /\ KeySet(buf.v) = {StrV(<<195, 169>>), StrV(<<97>>), StrV(<<97, 97>>)}
  /\ buf.bytes = CanonicalMapBytes(buf.t, buf.v)

(***************************************************************************)
(* Fixed-size arrays (contract-ffi)                                        *)
(***************************************************************************)
\* N as the four little-endian bytes of a u32
PrefixN(n) == <<n % 256, (n \div 256) % 256, (n \div 65536) % 256, n \div 16777216>>

\* C17: in contract-ffi [T; N] for non-byte T encodes as the 4-byte
\* little-endian prefix N followed by the N element encodings, decoding
\* [T; N] from input whose prefix differs from N returns FormattingError, and
\* [u8; N] encodes as exactly its N bytes with no prefix
C17_FixedArray ==
  /\ (crate = "ffi" /\ buf.kind = "exact" /\ buf.t.k = "Array" /\ ~IsByteArray(buf.t)) =>
       /\ Len(buf.v.a) = buf.t.n
       /\ buf.bytes = PrefixN(buf.t.n) \o
                        Concat([i \in 1..buf.t.n |-> to_bytes(buf.t.a[1], buf.v.a[i])])
  /\ (crate = "ffi" /\ IsDecode(res.op) /\ buf.t.k = "Array" /\ ~IsByteArray(buf.t)
        /\ Len(buf.bytes) >= 4 /\ Take(buf.bytes, 4) # PrefixN(buf.t.n)) =>
       res.r = Err("FormattingError")
  /\ (crate = "ffi" /\ buf.kind = "exact" /\ IsByteArray(buf.t)) =>
       /\ Len(buf.bytes) = buf.t.n
       /\ buf.bytes = [i \in 1..buf.t.n |-> buf.v.a[i].n]

\* [u32; 2] was decoded from bytes that announce three elements
C17_Witness ==
  /\ crate = "ffi" /\ res.op = "from_bytes" /\ buf.t = TArray(TU32, 2)
  /\ buf.bytes = <<3, 0, 0, 0, 97>>
  /\ res.r = Err("FormattingError")

(***************************************************************************)
(* Fixed-array decode releases partial work                                *)
(***************************************************************************)
\* the steps of the decode arrive at what from_bytes returns
ArrayStepsAgree == decoder.pc = "done" => res.r = from_bytes(buf.t, buf.bytes)

\* C18: when <[T; N]>::from_bytes fails while decoding element i, each of the
\* i elements already constructed is dropped exactly once, no slot is ever
\* dropped twice or dropped before it was written, and the number of live
\* instances of T after the failed call equals the number before it
C18_PartialWorkReleased ==
  /\ \A k \in 1..Len(decoder.slots) :
        /\ decoder.slots[k].drops <= 1
        /\ decoder.slots[k].drops = 1 => decoder.slots[k].init
  /\ (decoder.pc = "done" /\ ~res.r.ok) =>
        /\ \A k \in 1..Len(decoder.slots) :
              decoder.slots[k].drops = (IF k <= decoder.i THEN 1 ELSE 0)
        /\ decoder.live = decoder.before

\* [String; 3] failed on its third element after two were constructed, with
\* one instance held by the caller throughout
C18_Witness ==
  /\ decoder.pc = "done" /\ buf.t = TArray(TString, 3)
  /\ decoder.i = 2 /\ decoder.before = 1
  /\ res.r = Err("FormattingError")
  /\ decoder.slots[1].drops = 1 /\ decoder.slots[2].drops = 1 /\ decoder.slots[3].drops = 0
  /\ decoder.live = 1

(***************************************************************************)
(* URef serialized length (contract-ffi)                                   *)
(***************************************************************************)
\* C19: in contract-ffi every URef, whatever its access rights and also
\* after remove_access_rights(), serializes to exactly
\* UREF_SERIALIZED_LENGTH = 34 bytes: the 32 address bytes, one option tag
\* byte and one access-rights byte
C19_URefLength ==
  (crate = "ffi" /\ buf.kind = "exact" /\ buf.t = TURef) =>
    /\ UREF_SERIALIZED_LENGTH = 34
    /\ Len(buf.bytes) = UREF_SERIALIZED_LENGTH
    /\ Len(to_bytes(TURef, remove_access_rights(buf.v))) = UREF_SERIALIZED_LENGTH

\* the same for the URefs that carry rights, as they are
C19_URefLengthWithRights ==
  (crate = "ffi" /\ buf.kind = "exact" /\ buf.t = TURef /\ buf.v.a[1] # None) =>
    /\ Len(buf.bytes) = UREF_SERIALIZED_LENGTH
    /\ Take(buf.bytes, UREF_ADDR_LENGTH) = buf.v.s
    /\ Drop(buf.bytes, UREF_ADDR_LENGTH) = <<1, buf.v.a[1].a[1].n>>

(***************************************************************************)
(* URef::as_string                                                         *)
(***************************************************************************)
\* the rights bits of a URef of either crate, none counting as 0
BitsOf(u) == IF u.k = "turef" THEN u.n ELSE IF u.a[1] = None THEN 0 ELSE u.a[1].a[1].n

\* the value of a lower-case hex character, of an octal character
HexValue(c) == IF c \in 48..57 THEN c - 48 ELSE c - 87

IsLowerHex(c) == c \in 48..57 \/ c \in 97..102

IsOctal(c) == c \in 48..55

\* the string is "uref-", 64 lower-case hex characters that spell the
\* address, "-", and three octal digits that spell the rights bits
WellFormed(str, u) ==
  /\ Len(str) = 5 + 2 * UREF_ADDR_LENGTH + 1 + 3
  /\ SubSeq(str, 1, 5) = <<117, 114, 101, 102, 45>>
  /\ \A i \in 1..UREF_ADDR_LENGTH :
       /\ IsLowerHex(str[4 + 2 * i]) /\ IsLowerHex(str[5 + 2 * i])
       /\ 16 * HexValue(str[4 + 2 * i]) + HexValue(str[5 + 2 * i]) = u.s[i]
  /\ str[70] = 45
  /\ \A i \in 71..73 : IsOctal(str[i])
  /\ 64 * (str[71] - 48) + 8 * (str[72] - 48) + (str[73] - 48) = BitsOf(u)

\* the string every URef of the crate at hand would give
StringOf(u) == IF crate = "ffi" THEN as_string(u) ELSE types_as_string(u)

\* C20: as_string() is "uref-", the 64 lower-case hex characters of the
\* address, "-" and the rights bits as exactly three zero-padded octal
\* digits; a URef without rights gives 000, READ 001, WRITE 002; two URefs
\* give the same string only if they agree on the address and the rights bits
C20_AsString ==
  out.op = "as_string" =>
    /\ WellFormed(out.r.v.s, val)
    /\ BitsOf(val) = 0 => SubSeq(out.r.v.s, 71, 73) = <<48, 48, 48>>
    /\ BitsOf(val) = 1 => SubSeq(out.r.v.s, 71, 73) = <<48, 48, 49>>
    /\ BitsOf(val) = 2 => SubSeq(out.r.v.s, 71, 73) = <<48, 48, 50>>
    /\ \A u \in (IF crate = "ffi" THEN AllURefs ELSE AllTypesURefs) :
         StringOf(u) = out.r.v => (u.s = val.s /\ BitsOf(u) = BitsOf(val))

\* a contract-ffi URef at address ab..ab whose rights were removed gave
\* "uref-abab...-000"
C20_Witness ==
  /\ crate = "ffi" /\ out.op = "as_string"
  /\ val = URefV(Addr(171), None)
  /\ SubSeq(out.r.v.s, 1, 9) = <<117, 114, 101, 102, 45, 97, 98, 97, 98>>
  /\ SubSeq(out.r.v.s, 70, 73) = <<45, 48, 48, 48>>

(***************************************************************************)
(* Access rights decoding                                                  *)
(***************************************************************************)
\* the byte is made of the bits READ = 1, WRITE = 2 and ADD = 4 only
OnlyRightsBits(b) == b \div 8 = 0

\* the rights byte of a serialized URef, if it has one
HasRightsByte == IF crate = "ffi" THEN Len(buf.bytes) = UREF_ADDR_LENGTH + 2 ELSE TRUE

RightsByte == buf.bytes[Len(buf.bytes)]

\* the rights of a decoded URef
DecodedBits(u) == IF u.k = "turef" THEN u.n ELSE u.a[1].a[1].n

\* C21: decoding an access-rights byte succeeds exactly for the bytes made of
\* the bits READ, WRITE and ADD only (0..7), with those bits as the result, and
\* returns an error for every other byte instead of masking the extra bits;
\* decoding a URef that contains such a byte fails as a whole
C21_AccessRightsDecode ==
  /\ (IsDecode(res.op) /\ buf.t = TAccessRights) =>
       IF OnlyRightsBits(buf.bytes[1]) THEN res.r = Ok(IntV(buf.bytes[1]), <<>>)
       ELSE res.r = Err(IF crate = "ffi" THEN "FormattingError" ELSE "Custom")
  /\ (IsDecode(res.op) /\ buf.t = TURef /\ HasRightsByte) =>
       IF OnlyRightsBits(RightsByte)
         THEN res.r.ok /\ res.r.v.s = Addr(1) /\ DecodedBits(res.r.v) = RightsByte
         ELSE res.r = Err(IF crate = "ffi" THEN "FormattingError" ELSE "Custom")

\* a URef whose rights byte is 8 was refused by the types crate
C21_Witness ==
  /\ crate = "types" /\ res.op = "deserialize" /\ buf.t = TURef
  /\ RightsByte = 8
  /\ ~res.r.ok

(***************************************************************************)
(* Trie node wire form                                                     *)
(***************************************************************************)
\* a Pointer, a pointer block and a Trie written with a tag of `w` bytes
\* (little-endian) in front of the payload
PointerWire(p, w) == [i \in 1..w |-> IF i = 1 THEN p.n ELSE 0] \o p.s

BlockWire(b, w) ==
  <<RADIX % 256, RADIX \div 256, 0, 0>> \o
  Concat([i \in 1..Len(b.a) |->
            IF b.a[i] = None THEN <<0>> ELSE <<1>> \o PointerWire(b.a[i].a[1], w)])

TrieWire(t, v, w) ==
  [i \in 1..w |-> IF i = 1 THEN v.n ELSE 0] \o
  (CASE v.n = 0 -> to_bytes(t.a[1], v.a[1]) \o to_bytes(t.a[2], v.a[2])
     [] v.n = 1 -> BlockWire(v.a[1], w)
     [] v.n = 2 -> to_bytes(TVec(TU8), v.a[1]) \o PointerWire(v.a[2], w))

\* C22: a Trie encodes as a single tag byte (0 Leaf, 1 Node, 2 Extension)
\* followed by the variant payload (key then value; pointer block; affix then
\* pointer), a Pointer as a single tag byte (0 LeafPointer, 1 NodePointer)
\* followed by the 32-byte hash, and decoding any other tag value is a
\* formatting error
C22_TrieWireForm ==
  /\ (buf.kind = "exact" /\ buf.t.k = "Trie") => buf.bytes = TrieWire(buf.t, buf.v, 1)
  /\ (IsDecode(res.op) /\ buf.t.k = "Trie" /\ buf.bytes # <<>> /\ buf.bytes[1] \notin {0, 1, 2}) =>
       res.r = Err("FormattingError")

\* the same with the tags as the code writes them, a u32 each
C22_TrieWireFormU32 ==
  /\ (buf.kind = "exact" /\ buf.t.k = "Trie") =>
       buf.bytes = TrieWire(buf.t, buf.v, U32_SERIALIZED_LENGTH)
  /\ (IsDecode(res.op) /\ buf.t.k = "Trie" /\ Len(buf.bytes) >= U32_SERIALIZED_LENGTH
        /\ Take(buf.bytes, U32_SERIALIZED_LENGTH) \notin {<<0, 0, 0, 0>>, <<1, 0, 0, 0>>, <<2, 0, 0, 0>>}) =>
       res.r = Err("FormattingError")

(***************************************************************************)
(* PointerBlock bounds                                                     *)
(***************************************************************************)
\* the pointer last paired with slot k in a list of (index, pointer) pairs
LastFor(pairs, k) ==
  LET at == {i \in 1..Len(pairs) : pairs[i][1] = k}
  IN  IF at = {} THEN None ELSE Some(pairs[CHOOSE i \in at : \A j \in at : j <= i][2])

\* a step that reads slot idx returns it when idx is 0..255 and panics otherwise
ReadInBounds(idx) ==
  (out'.op \in {"index", "panic"} /\ Index(idx)) =>
    /\ val' = val
    /\ IF idx <= 255 THEN out'.op = "index" /\ out'.r = Ok(val.a[idx + 1], <<>>)
       ELSE out'.op = "panic"

\* a step that assigns slot idx changes that slot alone when idx is 0..255
\* and panics, leaving the block as it was, otherwise
WriteInBounds(idx, pointer) ==
  (out'.op \in {"index_mut", "panic"} /\ IndexMut(idx, pointer)) =>
    IF idx <= 255
      THEN /\ out'.op = "index_mut"
           /\ val'.a[idx + 1] = Some(pointer)
           /\ \A k \in 1..256 : k # idx + 1 => val'.a[k] = val.a[k]
      ELSE out'.op = "panic" /\ val' = val

\* from_indexed_pointers panics when a pair names slot 256 or higher, and
\* otherwise returns the block that holds the listed pointers and nothing else
BuildInBounds(pairs) ==
  (out'.op \in {"from_indexed_pointers", "panic"} /\ FromIndexedPointers(pairs)) =>
    IF \E i \in 1..Len(pairs) : pairs[i][1] > 255
      THEN out'.op = "panic" /\ val' = val
      ELSE /\ out'.op = "from_indexed_pointers"
           /\ Len(val'.a) = 256
           /\ \A k \in 0..255 : val'.a[k + 1] = LastFor(pairs, k)

\* C23: RADIX is exactly 256; a new PointerBlock has all 256 slots None;
\* reading or assigning slot i succeeds for every i from 0 to 255 and an
\* assignment changes only slot i; reading or assigning slot 256 or higher,
\* directly or through from_indexed_pointers, panics instead of wrapping
\* around or silently ignoring the write
C23_PointerBlockBounds ==
  /\ [](RADIX = 256)
  /\ [](out.op = "new" => (Len(val.a) = 256 /\ \A k \in 1..256 : val.a[k] = None))
  /\ [][/\ \A idx \in BlockIndices : ReadInBounds(idx)
        /\ \A idx \in BlockIndices, pointer \in BlockPointers : WriteInBounds(idx, pointer)
        /\ \A pairs \in IndexedPointers : BuildInBounds(pairs)]_vars

\* slot 255 was assigned and slot 256 was then asked for
C23_Witness ==
  /\ out.op = "panic" /\ out.r = Panic
  /\ val # NoBlock /\ val.a[256] = Some(PointerV(0, Addr(5))) /\ val.a[1] = None

(***************************************************************************)
(* The empty trie                                                          *)
(***************************************************************************)
\* the encoding of a Node whose 256 slots are None: the tag, the array
\* prefix 256, and 256 times the byte 0
EmptyNodeBytes == <<1, 0, 0, 0, 0, 1, 0, 0>> \o [i \in 1..256 |-> 0]

\* C24: every call of create_hashed_empty_trie returns the same pair, a Node
\* whose PointerBlock has all 256 slots None and the hash of that node's
\* encoding, whatever was called or built before; the returned hash is
\* Blake2bHash::new of the returned node's to_bytes
C24_EmptyTrie ==
  res.op = "create_hashed_empty_trie" =>
    /\ res.r.ok
    /\ LET root_hash == res.r.v.a[1]
           root == res.r.v.a[2]
       IN  /\ root.k = "trie" /\ root.n = 1
           /\ Len(root.a[1].a) = 256
           /\ \A k \in 1..256 : root.a[1].a[k] = None
           /\ to_bytes(TLeafTrie, root) = EmptyNodeBytes
           /\ root_hash = Blake2bHashNew(to_bytes(TLeafTrie, root))
           /\ root_hash = Blake2bHashNew(EmptyNodeBytes)

\* the empty trie was made after the caller had filled slot 0 of a block of
\* their own
C24_Witness ==
  /\ res.op = "create_hashed_empty_trie" /\ res.r.ok
  /\ val # NoBlock /\ val.a[1] # None
  /\ res.r.v.a[2] = NodeV(EmptyPointerBlock)


\* the code 65024 + x, 65280 + x or 65536 + x of a payload in its range
Offset(base, x) == usize(base + x)

FixedCodes == {usize(n) : n \in 1..42}

InSomeRange(value) ==
  \/ InRange(value, 1, 42)
  \/ InRange(value, 65024, 65024 + 255)
  \/ InRange(value, 65280, 65280 + 255)
  \/ InRange(value, 65536, 65536 + 65535)

RangeCount(value) ==
  Cardinality({r \in {<<1, 42>>, <<65024, 65279>>, <<65280, 65535>>, <<65536, 131071>>} :
                 InRange(value, r[1], r[2])})

\* C25: ApiError and its u32 codes form a partition.  The code of a fixed
\* variant lies in 1..=42, that of Mint(x) is 65024 + x, of ProofOfStake(x)
\* 65280 + x and of User(x) 65536 + x; no code lies in two of the four
\* ranges; converting the code of any error other than Unhandled back gives
\* the error; every u32 outside the four ranges converts to Unhandled; and
\* result_from(i32_from(r)) = r, with Ok(()) mapped to 0.
C25_ApiErrorCodes ==
  /\ res.op = "u32_from" =>
       LET code == U32Of(res.r.v)
       IN  /\ val.k \in FixedVariants => code \in FixedCodes
           /\ val.k = "ApiError::Mint" => code = Offset(65024, val.n)
           /\ val.k = "ApiError::ProofOfStake" => code = Offset(65280, val.n)
           /\ val.k = "ApiError::User" => code = Offset(65536, val.n)
           /\ RangeCount(code) = 1
           /\ (out.op = "api_error_from" /\ val # Unhandled) => out.r.v = val
  /\ (res.op = "none" /\ out.op = "api_error_from") =>
       /\ RangeCount(U32Of(val)) <= 1
       /\ ~InSomeRange(U32Of(val)) => out.r.v = Unhandled
  /\ res.op = "i32_from" =>
       /\ val = OkV(Unit) <=> res.r.v = IntV(0)
       /\ out.op = "result_from" => out.r.v = val
  /\ (res.op = "none" /\ out.op = "result_from") =>
       (out.r.v = OkV(Unit) <=> val = IntV(0))

\* User(65535) went to 131071 and came back
C25_Witness ==
  /\ val = ApiErrorV("ApiError::User", 65535)
  /\ res.op = "u32_from" /\ U32Of(res.r.v) = USize(1, 65535)
  /\ out.op = "api_error_from" /\ out.r.v = val


\* the calls of tests::tester on a counter of limit 2^64 + 1
TesterCalls == <<<<"add", u64_below_max(1)>>, <<"add", u64(3)>>, <<"add", u64(1)>>>>

Tester(n) ==
  /\ clv.v = <<U512Above(1), U512Small(0)>>
  /\ buf.bytes = SubSeq(TesterCalls, 1, n)

\* C26: on a GasCounter created with limit 2^64 + 1 and initial count 0,
\* add(u64::MAX - 1), add(3) and add(1), made in this order, each return Ok.
C26_Tester == \A n \in 1..3 : Tester(n) => out.r = OkT(Unit)

\* what the counter does: the first two calls bring used() to the limit,
\* after one flush, and the third is refused
C26_TesterRefused ==
  /\ \A n \in 1..2 : Tester(n) => out.r = OkT(Unit)
  /\ Tester(2) => (used(val) = limit(val) /\ res.r.v = IntV(1))
  /\ Tester(3) => (out.r = Err("GasLimitError") /\ used(val) = limit(val))

\* used() + g as a U512, and whether it is within the limit
Fits(self, g) ==
  /\ ~add_overflows(used(self), U512_from(g))
  /\ ~lt(limit(self), wrapping_add(used(self), U512_from(g)))

\* the law of a single counter: Ok and used() + g when that is within the
\* limit, Err and nothing changed otherwise, at most one flush on the way
AddsLikeOneCounter(g) ==
  Add(g) =>
    /\ out'.r = OkT(Unit) <=> Fits(val, g)
    /\ out'.r = OkT(Unit) => used(val') = wrapping_add(used(val), U512_from(g))
    /\ out'.r # OkT(Unit) => (out'.r = Err("GasLimitError") /\ used(val') = used(val))
    /\ limit(val') = limit(val)
    /\ val'.variant = val.variant
    /\ res'.r.v.n <= 1

C28_WithinLimit ==
  /\ [](val.variant # "none" => ~lt(limit(val), used(val)))
  /\ [](out.r # Panic)
  /\ [][\A g \in GasAmounts :
          (Add(g) /\ out'.r # OkT(Unit)) => ~Fits(val, g)]_vars

\* the same for the Small variant alone, whose reset leaves nothing stale
C28_WithinLimitSmall ==
  /\ [](val.variant = "Small" => (~lt(limit(val), used(val)) /\ out.r # Panic))
  /\ [][\A g \in GasAmounts :
          (val.variant = "Small" /\ Add(g) /\ out'.r # OkT(Unit)) => ~Fits(val, g)]_vars


\* used() has passed limit(): set_gas_used left limit_for_buffer as it was
GasOverrun == val.variant = "Large" /\ lt(limit(val), used(val))

\* the flush after it has computed total_limit - rest_of_used below zero
GasUnderflow == out.r = Panic /\ res.op = "total_limit - rest_of_used"

\* add(g) was refused on a counter that had room for g
GasRefusedWithRoom ==
  /\ out.op = "add" /\ out.r = Err("GasLimitError")
  /\ Fits(val, buf.bytes[Len(buf.bytes)][2])


\* C30: for every variant e of the mint Error (discriminants 0 to 7),
\* Error::try_from(e as u8) returns Ok(e), and for every u8 that is not the
\* discriminant of a variant it returns Err.
C30_MintTryFrom ==
  /\ (res.op = "as_u8" /\ out.op = "try_from") =>
       (res.r.v.n \in 0..7 /\ out.r = OkT(val))
  /\ (res.op = "none" /\ out.op = "try_from" /\ val.n \notin 0..7) =>
       out.r = Err("TryFromU8ForError")

\* what the conversion does: the variants up to InvalidNonEmptyPurseCreation
\* come back, Storage, PurseNotFound and every byte from 6 on are refused
C30_MintTryFromSix ==
  /\ (res.op = "as_u8" /\ out.op = "try_from") =>
       IF res.r.v.n \in 0..5 THEN out.r = OkT(val) ELSE out.r = Err("TryFromU8ForError")
  /\ (res.op = "none" /\ out.op = "try_from") =>
       IF val.n \in 0..5 THEN (out.r.ok /\ mint_error_as_u8(out.r.v) = val.n)
       ELSE out.r = Err("TryFromU8ForError")


\* into_t::<U> ran on a CLValue that from_t built from a value of a type
\* with the descriptor of U
TypeCheckPassed ==
  /\ crate = "types" /\ clv.src = "from_t"
  /\ out.op = "into_t" /\ cl_type(out.u) = cl_type(ty)

\* C29: in the types crate, passing the type check implies a faithful
\* decode: for T and U with T::cl_type() = U::cl_type() and every v of T,
\* CLValue::from_t(v).into_t::<U>() returns an error or a value whose
\* encoding equals that of v; a CLValue built from a PublicKey never becomes
\* a [u8; 32] different from the key's 32 bytes.
C29_FaithfulDecode ==
  /\ (TypeCheckPassed /\ out.r.ok) =>
       encoding_serialize(out.u, out.r.v) = OkT(BytesV(clv.v.s))
  /\ (TypeCheckPassed /\ out.r.ok /\ ty = TPublicKey /\ out.u = TArray(TU8, 32)) =>
       out.r.v = SeqV(U8sOf(val.s))

\* the same for T = U, where the decoder reads what its own encoder wrote
C29_FaithfulDecodeSameType ==
  (TypeCheckPassed /\ out.u = ty) =>
    (out.r = OkT(val) /\ encoding_serialize(out.u, out.r.v) = OkT(BytesV(clv.v.s)))

\* a PublicKey's CLValue was read as a [u8; 32]: the type check passed and
\* the array starts with the four bytes of the length prefix 32
PublicKeyReadAsArray ==
  /\ TypeCheckPassed /\ ty = TPublicKey /\ out.u = TArray(TU8, 32)
  /\ out.r.ok
  /\ out.r.v = SeqV(U8sOf(SubSeq(<<32, 0, 0, 0>> \o val.s, 1, 32)))

====
